---------------------------- MODULE Spec2Model ----------------------------
(***************************************************************************)
(* redbush: a bridge between an editor (NVIM) and a Clojure REPL.          *)
(*                                                                         *)
(* Five parts of the repository are modelled, each with its own            *)
(* specifications over the variables it owns:                              *)
(*   NreplSpec  the Framed (bencode) backend of src/nrepl/mod.rs:          *)
(*              new_sender_receiver, NreplSender::send,                    *)
(*              NreplReceiver::receive, Response::try_from                 *)
(*   NreplRecvSpec  the same handshake, then NreplReceiver::receive on     *)
(*              what the socket may hold                                   *)
(*   PreplSpec  the Line (EDN) backend of src/prepl/mod.rs                 *)
(*   Spec       the program of src/main.rs: run, start_nrepl_session,      *)
(*              nrepl_loop and the LogBuf calls it makes                   *)
(*   LiveSpec   Spec with the fairness the two threads' scheduling gives   *)
(*   ExitLiveSpec   LiveSpec on connections with few inputs                *)
(*   DetectSpec the backend detector, of which src/ holds no code: it is   *)
(*              modelled from section 4.2 of spec.md                       *)
(*   LogBufSpec LogBuf::append_lines of src/main.rs and of src/logbuf.rs,  *)
(*              called with batches of any size on a log buffer            *)
(***************************************************************************)
EXTENDS Integers, Sequences, FiniteSets, TLC

(***************************************************************************)
(* Bounds of the model                                                     *)
(***************************************************************************)
\* send calls on one Framed sender, the two of the handshake included
MaxSends == 4
\* receive calls on one Framed receiver after new_sender_receiver returned it
MaxRecvs == 1
\* send and receive calls on one Line pair after new_sender_receiver returned it
MaxPreplOps == 2
\* items the nREPL server emits on one connection, the handshake reply included
MaxEmit == 4
\* items emitted that the receiver has not read yet
MaxInbox == 2
\* events the host issues on one connection
MaxEvents == 2
\* server items and host events together on one connection
MaxInputs == 4
\* server items and host events together in the runs checked for termination
MaxExitInputs == 3
\* lines the log buffer holds when LogBuf::new finds it
MaxInitLines == 2
\* lines of one batch handed to LogBuf::append_lines
MaxBatch == 4
\* append_lines calls on one LogBuf
MaxAppends == 3

VARIABLES
    \* ---- Framed backend (src/nrepl/mod.rs)
    n_pc,        \* where new_sender_receiver is, then "ready" / "failed" / "panicked"
    sender,      \* NreplSender { session_id, request_cnt }
    receiver,    \* NreplReceiver { session_id, request_cnt }
    n_wbuf,      \* messages held by the sender's BufWriter after a failed flush
    n_wire,      \* dictionaries that reached the socket, in order
    n_sendlog,   \* history of send calls: request, dictionary built, result
    n_trace,     \* history of the handshake: what was sent and what was received
    n_last,      \* the latest receive() after the handshake: the item, the result
    n_stream,    \* what the receiver has read from the socket, in order
    \* ---- Line backend (src/prepl/mod.rs)
    p_pc,        \* "connect", then "ready" / "failed" / "panicked"
    psender,     \* PreplSender { session_id, request_cnt }
    preceiver,   \* PreplReceiver { session_id, request_cnt }
    p_wbuf,      \* text held by the sender's BufWriter after a failed flush
    p_wire,      \* text that reached the socket, in order
    p_stream,    \* the lines the server has emitted, in order
    p_sendlog,   \* history of send calls: request, result, what was written
    p_got,       \* history of the results of receive()
    \* ---- the program of src/main.rs
    m_pc,        \* the main thread in run(): "start", "handshake", "commands",
                 \* "join", then "done_ok" / "done_err" / "panicked" (process over)
    w_pc,        \* the worker in nrepl_loop(): "none", "starting", "recv", then
                 \* "exited_ok" / "exited_err" / "panicked"
    w_exit,      \* why the worker left its loop, and at which server item
    m_sender,    \* NreplSender { session } of main.rs
    nrepl_session, \* the local of run() that start_nrepl_session returned
    m_wbuf,      \* requests held by the BufWriter after a failed flush
    m_wire,      \* requests that reached the socket, in order
    m_emitted,   \* the items the server has emitted, in order
    m_rd,        \* how many of them the receiver has read
    m_closed,    \* the server has closed the connection
    m_events,    \* the events the host has issued, in order
    m_consumed,  \* how many of them the command loop has taken
    m_hostclosed, \* the host has closed the event channel
    m_cmdsends,  \* history of the send calls of the command loop
    m_sink,      \* history of the nvim calls of the worker
    m_appends,   \* history: the server items LogBuf::append_lines was called for
    last_result, \* the local of nrepl_loop()
    logbuf,      \* LogBuf { cursor_line, max_lines }
    nvim_buf,    \* the log buffer in NVIM: [lines (count), cursor]
    \* ---- the backend detector (spec.md 4.2)
    d_pc,        \* "connecting", "probing", "reading", then "selected" / "failed"
    d_wire,      \* what the detector has written to the socket, in order
    d_read,      \* the bytes the detector has read from the socket, in order
    d_backend,   \* the backend instantiated: "none", "Line" or "Framed"
    \* ---- LogBuf::append_lines on its own (src/main.rs, src/logbuf.rs)
    a_pc,        \* "new", then "ready", then "worker_gone" when nrepl_loop has
                 \* returned the error of an append_lines call of main.rs
    a_logbuf,    \* LogBuf { cursor_line, max_lines } of main.rs
    a_nvim,      \* its log buffer in NVIM: [lines (count), cursor]
    b_logbuf,    \* LogBuf { max_lines } of logbuf.rs
    b_nvim,      \* its log buffer in NVIM: [lines (count), cursor]
    a_call,      \* the latest append_lines call, of either LogBuf
    a_cnt        \* how many append_lines calls were made

nreplVars == <<n_pc, sender, receiver, n_wbuf, n_wire, n_sendlog, n_trace, n_last, n_stream>>
preplVars == <<p_pc, psender, preceiver, p_wbuf, p_wire, p_stream, p_sendlog, p_got>>

mainVars == <<m_pc, w_pc, w_exit, m_sender, nrepl_session, m_wbuf, m_wire, m_emitted,
              m_rd, m_closed, m_events, m_consumed, m_hostclosed, m_cmdsends, m_sink, m_appends,
              last_result, logbuf, nvim_buf>>
detectVars == <<d_pc, d_wire, d_read, d_backend>>
logVars == <<a_pc, a_logbuf, a_nvim, b_logbuf, b_nvim, a_call, a_cnt>>
otherThanNrepl == <<preplVars, mainVars, detectVars, logVars>>
otherThanPrepl == <<nreplVars, mainVars, detectVars, logVars>>
otherThanMain == <<nreplVars, preplVars, detectVars, logVars>>
otherThanDetect == <<nreplVars, preplVars, mainVars, logVars>>
otherThanLog == <<nreplVars, preplVars, mainVars, detectVars>>

vars == <<nreplVars, preplVars, mainVars, detectVars, logVars>>

(***************************************************************************)
(* Results: Ok(v), Err(e), or a panic that unwinds the calling thread      *)
(***************************************************************************)
Ok(v) == [res |-> "Ok", v |-> v]
Err(e) == [res |-> "Err", e |-> e]
Panic == [res |-> "Panic"]

(***************************************************************************)
(* repl.rs: Param, Request, Response                                       *)
(***************************************************************************)
\* Param::Str / Param::Int
PStr(s) == [param |-> "Str", s |-> s]
PInt(i) == [param |-> "Int", i |-> i]

\* HashMap::new() and HashMap::insert (an existing key is overwritten)
EmptyMap == <<>>
Insert(hm, k, v) == [x \in (DOMAIN hm) \cup {k} |-> IF x = k THEN v ELSE hm[x]]

\* enum Request
ReqEval(params) == [v |-> "Eval", params |-> params]
ReqInterrupt(params) == [v |-> "Interrupt", params |-> params]
ReqNewSession == [v |-> "NewSession"]
ReqDisableNsMaps == [v |-> "DisableNsMaps"]
ReqExit == [v |-> "Exit"]

\* enum Response
RValue(value, ns, ms, form) ==
    [tag |-> "Value", value |-> value, ns |-> ns, ms |-> ms, form |-> form]
RErr(s) == [tag |-> "Err", s |-> s]
ROut(s) == [tag |-> "Out", s |-> s]
RException(trace, msg) == [tag |-> "Exception", trace |-> trace, msg |-> msg]
RStatus(vec) == [tag |-> "Status", vec |-> vec]
RNewSession(s) == [tag |-> "NewSession", s |-> s]
REof == [tag |-> "Eof"]
ROther(s) == [tag |-> "Other", s |-> s]

(***************************************************************************)
(* bencode values (bencode_rs::Value)                                      *)
(***************************************************************************)
BStr(s) == [t |-> "Str", s |-> s]
BInt(i) == [t |-> "Int", i |-> i]
BList(l) == [t |-> "List", l |-> l]
BMap(m) == [t |-> "Map", m |-> m]

\* hm.get(&bc::Value::Str(key)) matched against Some(bc::Value::Str(_))
HasStr(hm, key) == BStr(key) \in DOMAIN hm /\ hm[BStr(key)].t = "Str"
\* hm.get(&bc::Value::Str(key)) matched against Some(bc::Value::List(_))
HasList(hm, key) == BStr(key) \in DOMAIN hm /\ hm[BStr(key)].t = "List"

\* usize::to_string, in decimal
Digits == <<"0", "1", "2", "3", "4", "5", "6", "7", "8", "9">>
RECURSIVE to_string(_)
to_string(n) ==
    IF n < 10 THEN Digits[n + 1]
    ELSE to_string(n \div 10) \o Digits[(n % 10) + 1]

\* Vec<String>::contains / Vec<bc::Value>::contains
Contains(vec, x) == \E i \in DOMAIN vec : vec[i] = x


(***************************************************************************)
(* EDN (the edn crate): values, and what Parser::read returns on the texts *)
(* the model's servers send                                                *)
(***************************************************************************)
EMap(m) == [k |-> "Map", m |-> m]
EVector(v) == [k |-> "Vector", v |-> v]
EString(s) == [k |-> "String", s |-> s]
ESymbol(s) == [k |-> "Symbol", s |-> s]
EInteger(i) == [k |-> "Integer", i |-> i]
EKeyword(s) == [k |-> "Keyword", s |-> s]
EBoolean(b) == [k |-> "Boolean", b |-> b]

\* Option<Result<Value, Error>>, the result of Parser::read
ReadNone == [rd |-> "None"]
ReadErr == [rd |-> "Err"]
ReadOk(v) == [rd |-> "Ok", v |-> v]

\* exception documents as a server prints them
TxtEmpty == ""
TxtMalformed == "{:via"
TxtNotMap == "42"
TxtNoVia == "{:trace []}"
TxtNoTrace == "{:via []}"
TxtBoom == "{:via [{:message \"boom\"}] :trace [[sym1 \"file.ext\" 42]]}"
TxtErrorBoom == "#error {:via [{:message \"boom\"}] :trace [[sym1 \"file.ext\" 42]]}"
TxtTwo == "{:via [{:message \"a\"} {:type X} {:message \"b\"}] :trace [[f \"x.clj\" 1] 7 [g -2]]}"
TxtEmptyFrame == "{:via [{:message \"boom\"}] :trace [[f \"x.clj\" 1] [] [g 2]]}"

ExceptionTexts ==
    {TxtEmpty, TxtMalformed, TxtNotMap, TxtNoVia, TxtNoTrace, TxtBoom, TxtErrorBoom, TxtTwo}

ValBoom ==
    EMap([x \in {EKeyword("via"), EKeyword("trace")} |->
        IF x = EKeyword("via")
        THEN EVector(<<EMap([y \in {EKeyword("message")} |-> EString("boom")])>>)
        ELSE EVector(<<EVector(<<ESymbol("sym1"), EString("file.ext"), EInteger(42)>>)>>)])

ValTwo ==
    EMap([x \in {EKeyword("via"), EKeyword("trace")} |->
        IF x = EKeyword("via")
        THEN EVector(<<EMap([y \in {EKeyword("message")} |-> EString("a")]),
                       EMap([y \in {EKeyword("type")} |-> ESymbol("X")]),
                       EMap([y \in {EKeyword("message")} |-> EString("b")])>>)
        ELSE EVector(<<EVector(<<ESymbol("f"), EString("x.clj"), EInteger(1)>>),
                       EInteger(7),
                       EVector(<<ESymbol("g"), EInteger(0 - 2)>>)>>)])

ValEmptyFrame ==
    EMap([x \in {EKeyword("via"), EKeyword("trace")} |->
        IF x = EKeyword("via")
        THEN EVector(<<EMap([y \in {EKeyword("message")} |-> EString("boom")])>>)
        ELSE EVector(<<EVector(<<ESymbol("f"), EString("x.clj"), EInteger(1)>>),
                       EVector(<<>>),
                       EVector(<<ESymbol("g"), EInteger(2)>>)>>)])

\* Parser::new(text).read()
EdnRead(text) ==
    CASE text = TxtEmpty -> ReadNone
      [] text = TxtMalformed -> ReadErr
      [] text = TxtNotMap -> ReadOk(EInteger(42))
      [] text = TxtNoVia -> ReadOk(EMap([x \in {EKeyword("trace")} |-> EVector(<<>>)]))
      [] text = TxtNoTrace -> ReadOk(EMap([x \in {EKeyword("via")} |-> EVector(<<>>)]))
      [] text = TxtBoom -> ReadOk(ValBoom)
      [] text = TxtTwo -> ReadOk(ValTwo)
      [] text = TxtEmptyFrame -> ReadOk(ValEmptyFrame)

\* str::replace("#error ", "")
StripErrorTag(text) == IF text = TxtErrorBoom THEN TxtBoom ELSE text

\* i64::to_string
i64_to_string(i) == IF i < 0 THEN "-" \o to_string(0 - i) ELSE to_string(i)

\* A String being built is the sequence of the pieces pushed to it.
Blank(piece) == piece \in {" ", "\n"}
RECURSIVE TrimStart(_)
TrimStart(str) ==
    IF str # <<>> /\ Blank(Head(str)) THEN TrimStart(Tail(str)) ELSE str
RECURSIVE TrimEnd(_)
TrimEnd(str) ==
    IF str # <<>> /\ Blank(str[Len(str)]) THEN TrimEnd(SubSeq(str, 1, Len(str) - 1))
    ELSE str
\* str::trim
Trim(str) == TrimEnd(TrimStart(str))

\* repl.rs 87-96: one message line per cause map that has a :message string
RECURSIVE ViaMessages(_, _)
ViaMessages(vec, errmsg) ==
    IF vec = <<>> THEN errmsg
    ELSE LET val == Head(vec)
             hit == /\ val.k = "Map"
                    /\ EKeyword("message") \in DOMAIN val.m
                    /\ val.m[EKeyword("message")].k = "String"
         IN ViaMessages(Tail(vec),
                IF hit THEN errmsg \o <<val.m[EKeyword("message")].s, "\n">> ELSE errmsg)

\* repl.rs 102-113: the symbol, string and integer tokens of one frame
RECURSIVE FrameTokens(_, _)
FrameTokens(v, trace) ==
    IF v = <<>> THEN trace
    ELSE LET val == Head(v)
         IN FrameTokens(Tail(v),
                CASE val.k = "Symbol" -> trace \o <<val.s, " ">>
                  [] val.k = "String" -> trace \o <<val.s, " ">>
                  [] val.k = "Integer" -> trace \o <<i64_to_string(val.i), " ">>
                  [] OTHER -> trace)

\* repl.rs 100-118: one line per frame that is a vector; the whole trace is trimmed
RECURSIVE TraceLines(_, _)
TraceLines(vec, trace) ==
    IF vec = <<>> THEN trace
    ELSE LET val == Head(vec)
         IN TraceLines(Tail(vec),
                IF val.k = "Vector"
                THEN Trim(FrameTokens(val.v, trace)) \o <<"\n">>
                ELSE trace)

\* repl.rs parse_exception: Ok(<<trace, errmsg>>), or a panic of one of its unwraps
parse_exception(edn_s) ==
    LET edn_val == EdnRead(edn_s)
    IN  IF edn_val.rd = "None" THEN Panic
        ELSE IF edn_val.rd = "Ok" /\ edn_val.v.k = "Map"
        THEN LET map == edn_val.v.m
             IN  IF EKeyword("via") \notin DOMAIN map THEN Panic
                 ELSE IF EKeyword("trace") \notin DOMAIN map THEN Panic
                 ELSE LET via == map[EKeyword("via")]
                          tr == map[EKeyword("trace")]
                          errmsg == IF via.k = "Vector" THEN ViaMessages(via.v, <<>>)
                                    ELSE <<>>
                          trace == IF tr.k = "Vector" THEN TraceLines(tr.v, <<>>)
                                   ELSE <<>>
                      IN Ok(<<trace, errmsg>>)
        ELSE Ok(<<<<>>, <<>>>>)

(***************************************************************************)
(* Framed backend, receiving side (src/nrepl/mod.rs 191-280)               *)
(***************************************************************************)
\* mod.rs 244-249: the strings of a status list, other elements dropped
RECURSIVE StatusStrings(_)
StatusStrings(list) ==
    IF list = <<>> THEN <<>>
    ELSE (IF Head(list).t = "Str" THEN <<Head(list).s>> ELSE <<>>)
         \o StatusStrings(Tail(list))

\* mod.rs 229-240: the `ex` branch of Response::try_from
TryFromEx(hm) ==
    IF HasStr(hm, "nrepl.middleware.caught/throwable")
    THEN LET parsed == parse_exception(
                 StripErrorTag(hm[BStr("nrepl.middleware.caught/throwable")].s))
         IN  IF parsed.res = "Panic" THEN Panic
             ELSE Ok(RException(parsed.v[1], ""))
    ELSE Ok(RException(<<hm[BStr("ex")].s>>, ""))

\* mod.rs 252-272: the `value` branch of Response::try_from and its fall-through
TryFromValue(hm) ==
    IF HasStr(hm, "value")
    THEN IF HasStr(hm, "ns")
         THEN Ok(RValue(hm[BStr("value")].s, hm[BStr("ns")].s, 0, ""))
         ELSE Err("Missing 'ns' in nREPL value-response")
    ELSE Err("Unsupported nREPL response")

\* impl TryFrom<bc::Value> for Response
TryFrom(val) ==
    IF val.t = "Map"
    THEN LET hm == val.m
         IN  IF HasStr(hm, "new-session") THEN Ok(RNewSession(hm[BStr("new-session")].s))
             ELSE IF HasStr(hm, "err") THEN Ok(RErr(hm[BStr("err")].s))
             ELSE IF HasStr(hm, "out") THEN Ok(ROut(hm[BStr("out")].s))
             ELSE IF HasStr(hm, "ex") THEN TryFromEx(hm)
             ELSE IF HasList(hm, "status")
                  THEN Ok(RStatus(StatusStrings(hm[BStr("status")].l)))
             ELSE TryFromValue(hm)
    ELSE Err("Unexpected nREPL response")

\* What bc::parse_bencode finds on the socket: a value, nothing, the end of the
\* stream, or bytes that are no bencode
ItemFrame(val) == [item |-> "frame", val |-> val]
ItemNone == [item |-> "none"]
ItemEof == [item |-> "eof"]
ItemBad == [item |-> "bad"]

\* a receiver that treats the end of the stream as any other decode failure
NreplReceiveEofAsError(item) ==
    CASE item.item = "frame" -> TryFrom(item.val)
      [] item.item = "none" -> Ok(ROther("None/Nil Response from nREPL"))
      [] OTHER -> Err("BencodeError")

\* NreplReceiver::receive
NreplReceive(item) ==
    CASE item.item = "frame" -> TryFrom(item.val)
      [] item.item = "none" -> Ok(ROther("None/Nil Response from nREPL"))
      [] item.item = "eof" -> Ok(REof)
      [] item.item = "bad" -> Err("BencodeError")

(***************************************************************************)
(* The frames the model's nREPL server may emit                            *)
(***************************************************************************)
\* a dictionary with string keys
Dict(keys, Val(_)) == BMap([bk \in {BStr(key) : key \in keys} |-> Val(bk.s)])

DefaultVal(key) ==
    CASE key = "new-session" -> BStr("s1")
      [] key = "err" -> BStr("boom")
      [] key = "out" -> BStr("hi")
      [] key = "ex" -> BStr("class X")
      [] key = "nrepl.middleware.caught/throwable" -> BStr(TxtErrorBoom)
      [] key = "status" -> BList(<<BStr("done")>>)
      [] key = "value" -> BStr("2")
      [] key = "ns" -> BStr("user")
      [] OTHER -> BStr("x")

\* the dictionary with the default value at each of `keys`
Frame(keys) == Dict(keys, DefaultVal)
\* the same with the value at `key` replaced by `v`
FrameWith(keys, key, v) ==
    BMap([bk \in {BStr(k) : k \in keys} |-> IF bk.s = key THEN v ELSE DefaultVal(bk.s)])

StatusLists ==
    { <<>>, <<BStr("done")>>, <<BStr("session-closed")>>,
      <<BStr("done"), BStr("session-closed")>>, <<BInt(1), BStr("done")>>,
      <<BStr("interrupted")>> }

NreplFrames ==
    { Frame({"new-session"}), Frame({"new-session", "status"}),
      FrameWith({"new-session"}, "new-session", BStr("")),
      FrameWith({"new-session"}, "new-session", BInt(7)),
      Frame({"err"}), Frame({"err", "value", "ns"}), Frame({"out"}),
      Frame({"out", "status"}), Frame({"ex"}), Frame({"ex", "status"}),
      Frame({"status", "value", "ns"}), Frame({"value", "ns"}), Frame({"value"}),
      FrameWith({"value", "ns"}, "ns", BInt(1)),
      FrameWith({"value", "ns"}, "value", BInt(2)),
      Frame({}), Frame({"foo"}), Frame({"ns"}),
      BInt(1), BStr("d"), BList(<<BStr("done")>>) }
    \cup { FrameWith({"status"}, "status", BList(l)) : l \in StatusLists }
    \cup { FrameWith({"ex", "nrepl.middleware.caught/throwable"},
                     "nrepl.middleware.caught/throwable", BStr(txt)) :
           txt \in ExceptionTexts }

NreplItems == {ItemFrame(val) : val \in NreplFrames} \cup {ItemNone, ItemEof, ItemBad}

(***************************************************************************)
(* Framed backend, sending side (src/nrepl/mod.rs 20-26, 116-189)          *)
(***************************************************************************)
\* mod.rs 119-126: Param to bc::Value
ParamToBc(p) == IF p.param = "Str" THEN BStr(p.s) ELSE BInt(p.i)

\* build_bc_value
build_bc_value(hm) ==
    BMap([bk \in {ParamToBc(k) : k \in DOMAIN hm} |->
            ParamToBc(hm[CHOOSE k \in DOMAIN hm : ParamToBc(k) = bk])])

\* mod.rs 134-166: the params of each Request variant
RequestParams(snd, req) ==
    CASE req.v = "NewSession" -> Insert(EmptyMap, PStr("op"), PStr("clone"))
      [] req.v = "DisableNsMaps" ->
            Insert(Insert(EmptyMap, PStr("op"), PStr("eval")),
                   PStr("code"), PStr("(set! *print-namespace-maps* false)"))
      [] req.v = "Eval" -> Insert(req.params, PStr("op"), PStr("eval"))
      [] req.v = "Exit" -> Insert(EmptyMap, PStr("op"), PStr("close"))
      [] req.v = "Interrupt" ->
            Insert(Insert(req.params, PStr("op"), PStr("interrupt")),
                   PStr("interrupt-id"), PStr(to_string(snd.request_cnt)))

\* a sender that writes the session key whether or not it holds a session id
WithSessionAlways(snd, params) ==
    Insert(params, PStr("session"), PStr(snd.session_id))

\* mod.rs 167-172: the session key, when a session id is held
WithSession(snd, params) ==
    IF snd.session_id # ""
    THEN Insert(params, PStr("session"), PStr(snd.session_id))
    ELSE params

\* mod.rs 173-176: the id key
WithId(snd, params) == Insert(params, PStr("id"), PStr(to_string(snd.request_cnt)))

\* mod.rs 134-180: the dictionary send encodes
SendDict(snd, req) == build_bc_value(WithId(snd, WithSession(snd, RequestParams(snd, req))))

\* a sender that forgets to count a send
NextRequestCntSame(cnt) == cnt

\* mod.rs 181: the counter after a successful write_and_flush
NextRequestCnt(cnt) == cnt + 1

\* What write_and_flush meets: both calls succeed, write_all fails, or flush fails
IoOutcomes == {"ok", "write_err", "flush_err"}

\* a sender that counts a request before it writes it
NreplSendCountsFirst(snd, wbuf, wire, req, outcome, target) ==
    LET dict == SendDict(snd, req)
        ok == outcome = "ok"
    IN  [ sender |-> [snd EXCEPT !.request_cnt = NextRequestCnt(@)],
          wbuf |-> CASE outcome = "ok" -> <<>>
                     [] outcome = "write_err" -> wbuf
                     [] outcome = "flush_err" -> Append(wbuf, dict),
          wire |-> IF ok THEN wire \o wbuf \o <<dict>> ELSE wire,
          res |-> IF ok THEN "Ok" ELSE "Err",
          entry |-> [ req |-> req, dict |-> dict, res |-> IF ok THEN "Ok" ELSE "Err",
                      cnt |-> snd.request_cnt, session |-> snd.session_id,
                      target |-> target ] ]

\* NreplSender::send on sender `snd` whose BufWriter holds `wbuf` before a socket
\* that has received `wire`: the sender, buffer and socket afterwards, the
\* result, and the entry of the call in the history. `target` is the id of the
\* eval the caller means to interrupt ("none" unless the request is Interrupt).
NreplSend(snd, wbuf, wire, req, outcome, target) ==
    LET dict == SendDict(snd, req)
        ok == outcome = "ok"
    IN  [ sender |-> IF ok THEN [snd EXCEPT !.request_cnt = NextRequestCnt(@)] ELSE snd,
          wbuf |-> CASE outcome = "ok" -> <<>>
                     [] outcome = "write_err" -> wbuf
                     [] outcome = "flush_err" -> Append(wbuf, dict),
          wire |-> IF ok THEN wire \o wbuf \o <<dict>> ELSE wire,
          res |-> IF ok THEN "Ok" ELSE "Err",
          entry |-> [ req |-> req, dict |-> dict, res |-> IF ok THEN "Ok" ELSE "Err",
                      cnt |-> snd.request_cnt, session |-> snd.session_id,
                      target |-> target ] ]

(***************************************************************************)
(* new_sender_receiver of the Framed backend (src/nrepl/mod.rs 39-114)     *)
(***************************************************************************)
EvSend(entry) == [ev |-> "send", req |-> entry.req, res |-> entry.res]
EvRecv(result) == [ev |-> "recv", result |-> result]
EvConnectErr == [ev |-> "connect_err"]

\* mod.rs 42-61: connect, build the pair, send NewSession
NsrConnect ==
    /\ n_pc = "connect"
    /\ \/ /\ n_pc' = "failed"
          /\ n_trace' = Append(n_trace, EvConnectErr)
          /\ UNCHANGED <<sender, receiver, n_wbuf, n_wire, n_sendlog, n_last, n_stream,
                         otherThanNrepl>>
       \/ \E outcome \in IoOutcomes :
            LET r == NreplSend(sender, n_wbuf, n_wire, ReqNewSession, outcome, "none")
            IN  /\ sender' = r.sender
                /\ n_wbuf' = r.wbuf
                /\ n_wire' = r.wire
                /\ n_sendlog' = Append(n_sendlog, r.entry)
                /\ n_trace' = Append(n_trace, EvSend(r.entry))
                /\ n_pc' = IF r.res = "Ok" THEN "recv_session" ELSE "failed"
                /\ UNCHANGED <<receiver, n_last, n_stream, otherThanNrepl>>

\* mod.rs 63-68 and 97-112: the reply to NewSession; the ids are stored and
\* DisableNsMaps is sent
NsrRecvSession ==
    /\ n_pc = "recv_session"
    /\ \E item \in NreplItems :
         LET got == NreplReceive(item)
         IN  /\ UNCHANGED <<n_last, otherThanNrepl>>
             /\ n_stream' = Append(n_stream, item)
             /\ IF got.res = "Ok" /\ got.v.tag = "NewSession"
                THEN \E outcome \in IoOutcomes :
                       LET snd == [sender EXCEPT !.session_id = got.v.s]
                           r == NreplSend(snd, n_wbuf, n_wire, ReqDisableNsMaps,
                                          outcome, "none")
                       IN  /\ sender' = r.sender
                           /\ receiver' = [receiver EXCEPT !.session_id = got.v.s]
                           /\ n_wbuf' = r.wbuf
                           /\ n_wire' = r.wire
                           /\ n_sendlog' = Append(n_sendlog, r.entry)
                           /\ n_trace' = n_trace \o <<EvRecv(got), EvSend(r.entry)>>
                           /\ n_pc' = IF r.res = "Ok" THEN "recv_value" ELSE "failed"
                ELSE /\ n_trace' = Append(n_trace, EvRecv(got))
                     /\ n_pc' = IF got.res = "Panic" THEN "panicked" ELSE "failed"
                     /\ UNCHANGED <<sender, receiver, n_wbuf, n_wire, n_sendlog>>

\* mod.rs 69-70 and 91-94: the first reply to DisableNsMaps
NsrRecvValue ==
    /\ n_pc = "recv_value"
    /\ \E item \in NreplItems :
         LET got == NreplReceive(item)
         IN  /\ n_trace' = Append(n_trace, EvRecv(got))
             /\ n_pc' = CASE got.res = "Panic" -> "panicked"
                          [] got.res = "Ok" /\ got.v.tag = "Value" -> "recv_status"
                          [] OTHER -> "failed"
             /\ UNCHANGED <<sender, receiver, n_wbuf, n_wire, n_sendlog, n_last, otherThanNrepl>>
             /\ n_stream' = Append(n_stream, item)

\* mod.rs 70-89: the second reply to DisableNsMaps
NsrRecvStatus ==
    /\ n_pc = "recv_status"
    /\ \E item \in NreplItems :
         LET got == NreplReceive(item)
         IN  /\ n_trace' = Append(n_trace, EvRecv(got))
             /\ n_pc' = CASE got.res = "Panic" -> "panicked"
                          [] /\ got.res = "Ok"
                             /\ got.v.tag = "Status"
                             /\ Contains(got.v.vec, "done") -> "ready"
                          [] OTHER -> "failed"
             /\ UNCHANGED <<sender, receiver, n_wbuf, n_wire, n_sendlog, n_last, otherThanNrepl>>
             /\ n_stream' = Append(n_stream, item)

(***************************************************************************)
(* The pair in use after new_sender_receiver returned it                   *)
(***************************************************************************)
CodeParams == Insert(EmptyMap, PStr("code"), PStr("(+ 1 1)"))
\* payloads a caller may pass with Eval
EvalParams ==
    { EmptyMap, CodeParams,
      Insert(Insert(Insert(CodeParams, PStr("id"), PStr("99")),
                    PStr("session"), PStr("zz")), PStr("op"), PStr("load")),
      Insert(EmptyMap, PInt(1), PInt(2)) }

\* the ids carried by the evals that were sent
SentEvalIds ==
    { n_sendlog[i].dict.m[BStr("id")].s :
        i \in { j \in DOMAIN n_sendlog :
                  n_sendlog[j].req.v = "Eval" /\ n_sendlog[j].res = "Ok" } }

\* ReplSender::send called by the owner of the pair
NreplSendRequest ==
    /\ n_pc = "ready"
    /\ Len(n_sendlog) < MaxSends
    /\ \E outcome \in IoOutcomes :
       \E call \in
            { [req |-> ReqEval(p), target |-> "none"] : p \in EvalParams }
            \cup { [req |-> r, target |-> "none"] :
                     r \in {ReqNewSession, ReqDisableNsMaps, ReqExit} }
            \cup { [req |-> ReqInterrupt(EmptyMap), target |-> id] : id \in SentEvalIds }
            \cup { [req |-> ReqInterrupt(Insert(EmptyMap, PStr("interrupt-id"), PStr(id))),
                    target |-> id] : id \in SentEvalIds } :
         LET r == NreplSend(sender, n_wbuf, n_wire, call.req, outcome, call.target)
         IN  /\ sender' = r.sender
             /\ n_wbuf' = r.wbuf
             /\ n_wire' = r.wire
             /\ n_sendlog' = Append(n_sendlog, r.entry)
             /\ UNCHANGED <<n_pc, receiver, n_trace, n_last, n_stream, otherThanNrepl>>

\* the keys Response::try_from probes, and its companion keys
ProbedKeys ==
    {"new-session", "err", "out", "ex", "status", "value", "ns",
     "nrepl.middleware.caught/throwable"}

\* What the socket may hold when the owner of the pair calls receive: the items
\* of the handshake, every combination of the probed keys, keys holding a
\* value of another kind, and exception documents beside other keys
RecvItems ==
    NreplItems
    \cup { ItemFrame(Frame(keys)) : keys \in SUBSET ProbedKeys }
    \cup { ItemFrame(FrameWith(keys, key, BInt(7))) :
             keys \in {{"err", "value", "ns"}, {"new-session", "out"}, {"ex", "status"}},
             key \in {"err", "new-session", "ex", "out"} }
    \cup { ItemFrame(FrameWith({"status", "value", "ns"}, "status", BStr("done"))) }
    \cup { ItemFrame(FrameWith({"ex", "nrepl.middleware.caught/throwable", "status", "value"},
                               "nrepl.middleware.caught/throwable", BStr(txt))) :
             txt \in ExceptionTexts }

\* mod.rs 63, 69, 70: the receive calls of a handshake that succeeds
HandshakeReplies == 3

\* ReplReceiver::receive called by the owner of the pair; a panic unwinds the
\* thread that called it
NreplReceiveResponse ==
    /\ n_pc = "ready"
    /\ Len(n_stream) < HandshakeReplies + MaxRecvs
    /\ \E item \in RecvItems :
         LET result == NreplReceive(item)
         IN  /\ n_last' = [item |-> item, result |-> result]
             /\ n_stream' = Append(n_stream, item)
             /\ n_pc' = IF result.res = "Panic" THEN "panicked" ELSE n_pc
    /\ UNCHANGED <<sender, receiver, n_wbuf, n_wire, n_sendlog, n_trace, otherThanNrepl>>

\* mod.rs 45-59: the pair as new_sender_receiver builds it
NreplStart ==
    /\ n_pc = "connect"
    /\ sender = [session_id |-> "", request_cnt |-> 0]
    /\ receiver = [session_id |-> "", request_cnt |-> 0]
    /\ n_wbuf = <<>>
    /\ n_wire = <<>>
    /\ n_sendlog = <<>>
    /\ n_trace = <<>>
    /\ n_last = [item |-> [item |-> "nothing"], result |-> [res |-> "None"]]
    /\ n_stream = <<>>

NreplNext ==
    \/ NsrConnect
    \/ NsrRecvSession
    \/ NsrRecvValue
    \/ NsrRecvStatus
    \/ NreplSendRequest

\* the handshake, then the receiving side of the pair in use
NreplRecvNext ==
    \/ NsrConnect
    \/ NsrRecvSession
    \/ NsrRecvValue
    \/ NsrRecvStatus
    \/ NreplReceiveResponse


(***************************************************************************)
(* Line backend (src/prepl/mod.rs)                                         *)
(***************************************************************************)
\* A line of the server: its text and what Parser::new(text).read() returns
Line(text, read) == [text |-> text, read |-> read]

\* an EDN map with keyword keys
KwMap(keys, Val(_)) == EMap([ek \in {EKeyword(key) : key \in keys} |-> Val(ek.s)])

RetVal(key) ==
    CASE key = "tag" -> EKeyword("ret")
      [] key = "val" -> EString("2")
      [] key = "ns" -> EString("user")
      [] key = "ms" -> EInteger(3)
      [] key = "form" -> EString("(+ 1 1)")
      [] key = "exception" -> EBoolean(FALSE)
\* {:tag :ret ...} with the keys `keys`
RetLine(text, keys) == Line(text, ReadOk(KwMap(keys, RetVal)))
\* {:tag :ret :val "<doc>" :exception true}
ExceptionLine(doc) ==
    Line("{:tag :ret :val \"..\" :exception true}",
         ReadOk(EMap([ek \in {EKeyword("tag"), EKeyword("val"), EKeyword("exception")} |->
            CASE ek.s = "tag" -> EKeyword("ret")
              [] ek.s = "val" -> EString(doc)
              [] ek.s = "exception" -> EBoolean(TRUE)])))
\* {:tag <tag> :val "<val>"}
TagLine(text, tag, val) ==
    Line(text, ReadOk(EMap([ek \in {EKeyword("tag"), EKeyword("val")} |->
            IF ek.s = "tag" THEN tag ELSE EString(val)])))

\* exception documents of a pREPL server (printed data, with no #error tag)
PreplExceptionTexts == (ExceptionTexts \ {TxtErrorBoom}) \cup {TxtEmptyFrame}

PreplLines ==
    { RetLine("{:tag :ret :val \"2\" :ns \"user\" :ms 3 :form \"(+ 1 1)\"}",
              {"tag", "val", "ns", "ms", "form"}),
      RetLine("{:tag :ret}", {"tag"}),
      RetLine("{:tag :ret :val \"2\" :exception false}", {"tag", "val", "exception"}),
      TagLine("{:tag :out :val \"hi\"}", EKeyword("out"), "hi"),
      TagLine("{:tag :err :val \"oops\"}", EKeyword("err"), "oops"),
      TagLine("{:tag :tap :val \"x\"}", EKeyword("tap"), "x"),
      TagLine("{:tag \"ret\" :val \"x\"}", EString("ret"), "x"),
      Line("{:val \"x\"}", ReadOk(EMap([ek \in {EKeyword("val")} |-> EString("x")]))),
      Line("[1 2]", ReadOk(EVector(<<EInteger(1), EInteger(2)>>))),
      Line("{:tag", ReadErr),
      Line("", ReadNone) }
    \cup { ExceptionLine(doc) : doc \in PreplExceptionTexts }

\* What BufRead::read_line meets: a line of the server, or an I/O error
ReadLine(line) == [rl |-> "line", line |-> line]
ReadIoErr == [rl |-> "io_err"]
PreplReads == {ReadLine(line) : line \in PreplLines} \cup {ReadIoErr}

\* prepl/mod.rs 49-72 of PreplReceiver::parse_exception: as TraceLines, on `result`
PreplTrace(tr, result) == IF tr.k = "Vector" THEN TraceLines(tr.v, result) ELSE result

\* PreplReceiver::parse_exception: Ok(the text), or a panic of one of its unwraps
preplParseException(edn_s) ==
    LET edn_val == EdnRead(edn_s)
    IN  IF edn_val.rd = "None" THEN Panic
        ELSE IF edn_val.rd = "Ok" /\ edn_val.v.k = "Map"
        THEN LET map == edn_val.v.m
             IN  IF EKeyword("via") \notin DOMAIN map THEN Panic
                 ELSE IF EKeyword("trace") \notin DOMAIN map THEN Panic
                 ELSE LET via == map[EKeyword("via")]
                          msgs == IF via.k = "Vector" THEN ViaMessages(via.v, <<>>)
                                  ELSE <<>>
                      IN Ok(PreplTrace(map[EKeyword("trace")],
                                       msgs \o <<"\n", "-- Trace --", "\n">>))
        ELSE Ok(<<>>)

\* map.get(&Keyword(key)) matched against Some(<kind>(_)), with a default
GetOr(map, key, kind, field, default) ==
    IF EKeyword(key) \in DOMAIN map /\ map[EKeyword(key)].k = kind
    THEN map[EKeyword(key)][field]
    ELSE default

\* prepl/mod.rs 169-197: a :ret map
PreplRet(map) ==
    LET val == GetOr(map, "val", "String", "s", "")
        ns == GetOr(map, "ns", "String", "s", "")
        ms == GetOr(map, "ms", "Integer", "i", 0)
        form == GetOr(map, "form", "String", "s", "")
        exception == GetOr(map, "exception", "Boolean", "b", FALSE)
    IN  IF exception
        THEN LET parsed == preplParseException(val)
             IN  IF parsed.res = "Panic" THEN Panic
                 ELSE Ok(RException(parsed.v, ""))
        ELSE Ok(RValue(val, ns, ms, form))

\* prepl/mod.rs 160-227: what receive makes of the line read
PreplDecode(line) ==
    LET edn_val == line.read
    IN  CASE edn_val.rd = "None" ->
                Err("EDN parser Error: trying to parse empty string")
          [] edn_val.rd = "Err" -> Err("EDN parser Error")
          [] edn_val.rd = "Ok" /\ edn_val.v.k # "Map" ->
                Err("EDN parser Error: unexpected response from pREPL")
          [] OTHER ->
                LET map == edn_val.v.m
                IN  IF EKeyword("tag") \notin DOMAIN map THEN Panic
                    ELSE LET tag == map[EKeyword("tag")]
                         IN  IF tag.k # "Keyword" THEN Ok(ROther(""))
                             ELSE CASE tag.s = "ret" -> PreplRet(map)
                                    [] tag.s = "out" ->
                                         Ok(ROut(GetOr(map, "val", "String", "s", "")))
                                    [] tag.s = "err" ->
                                         Ok(ROut(GetOr(map, "val", "String", "s", "")))
                                    [] OTHER -> Ok(ROther(tag.s))

\* PreplReceiver::receive
PreplReceive(read) ==
    IF read.rl = "io_err" THEN Err("Io") ELSE PreplDecode(read.line)

\* a sender that writes the code of an Eval without the newline
PreplTextNoNewline(req) ==
    CASE req.v = "Eval" ->
            IF PStr("code") \in DOMAIN req.params /\ req.params[PStr("code")].param = "Str"
            THEN req.params[PStr("code")].s
            ELSE ""
      [] req.v = "Exit" -> ":repl/quit\n"
      [] OTHER -> ""

\* prepl/mod.rs 124-143: the text PreplSender::send writes ("" when it writes none)
PreplText(req) ==
    CASE req.v = "Eval" ->
            IF PStr("code") \in DOMAIN req.params /\ req.params[PStr("code")].param = "Str"
            THEN req.params[PStr("code")].s \o "\n"
            ELSE ""
      [] req.v = "Exit" -> ":repl/quit\n"
      [] OTHER -> ""

\* PreplSender::write_and_flush of `text` with the BufWriter holding `wbuf`
PreplWrite(wbuf, wire, text, outcome) ==
    [ wbuf |-> CASE outcome = "ok" -> <<>>
                 [] outcome = "write_err" -> wbuf
                 [] outcome = "flush_err" -> Append(wbuf, text),
      wire |-> IF outcome = "ok" THEN wire \o wbuf \o <<text>> ELSE wire,
      res |-> IF outcome = "ok" THEN "Ok" ELSE "Err" ]

\* PreplSender::send: the sender afterwards, the write (none when nothing is
\* written) and the result
PreplSend(snd, wbuf, wire, req, outcome) ==
    LET text == PreplText(req)
        w == PreplWrite(wbuf, wire, text, outcome)
    IN  IF text = ""
        THEN [sender |-> snd, wbuf |-> wbuf, wire |-> wire, res |-> "Ok", text |-> ""]
        ELSE [ sender |-> IF w.res = "Ok" /\ req.v = "Eval"
                          THEN [snd EXCEPT !.request_cnt = @ + 1] ELSE snd,
               wbuf |-> w.wbuf, wire |-> w.wire, res |-> w.res, text |-> text ]

\* the display-quirk toggle of prepl/mod.rs 113
NsMapsToggle == "(set! *print-namespace-maps* false)\n"

\* a startup that accepts the reply to the toggle only if it parses
DiscardLineValidated(read) ==
    IF read.rl = "line" /\ read.line.read.rd = "Ok" THEN "ready" ELSE "failed"

\* prepl/mod.rs 114-117: the reply to the toggle is read into _buf and dropped;
\* only a failed read_line makes new_sender_receiver fail
DiscardLine(read) == IF read.rl = "line" THEN "ready" ELSE "failed"

\* prepl/mod.rs 90-118: new_sender_receiver of the Line backend
PreplNewSenderReceiver ==
    /\ p_pc = "connect"
    /\ \/ /\ p_pc' = "failed"
          /\ UNCHANGED <<psender, preceiver, p_wbuf, p_wire, p_stream, p_sendlog, p_got>>
       \/ \E outcome \in IoOutcomes :
            LET w == PreplWrite(p_wbuf, p_wire, NsMapsToggle, outcome)
            IN  /\ p_wbuf' = w.wbuf
                /\ p_wire' = w.wire
                /\ IF w.res = "Ok"
                   THEN \E read \in PreplReads :
                          /\ p_stream' = IF read.rl = "line"
                                         THEN Append(p_stream, read.line) ELSE p_stream
                          /\ p_pc' = DiscardLine(read)
                   ELSE p_pc' = "failed" /\ p_stream' = p_stream
                /\ UNCHANGED <<psender, preceiver, p_sendlog, p_got>>
    /\ UNCHANGED otherThanPrepl

PreplCodeParams == Insert(EmptyMap, PStr("code"), PStr("(+ 1 1)"))
PreplRequests ==
    { ReqEval(PreplCodeParams), ReqEval(EmptyMap),
      ReqEval(Insert(EmptyMap, PStr("code"), PInt(1))),
      ReqInterrupt(EmptyMap), ReqNewSession, ReqDisableNsMaps, ReqExit }

PreplOps == Len(p_sendlog) + Len(p_got)

\* ReplSender::send called by the owner of the pair
PreplSendRequest ==
    /\ p_pc = "ready"
    /\ PreplOps < MaxPreplOps
    /\ \E req \in PreplRequests :
       \E outcome \in IF PreplText(req) = "" THEN {"ok"} ELSE IoOutcomes :
         LET r == PreplSend(psender, p_wbuf, p_wire, req, outcome)
         IN  /\ psender' = r.sender
             /\ p_wbuf' = r.wbuf
             /\ p_wire' = r.wire
             /\ p_sendlog' = Append(p_sendlog,
                    [ req |-> req, res |-> r.res, text |-> r.text,
                      wire |-> p_wire, wire_after |-> r.wire ])
    /\ UNCHANGED <<p_pc, preceiver, p_stream, p_got>>
    /\ UNCHANGED otherThanPrepl

\* ReplReceiver::receive called by the owner of the pair; a panic unwinds the
\* thread that called it
PreplReceiveResponse ==
    /\ p_pc = "ready"
    /\ PreplOps < MaxPreplOps
    /\ \E read \in PreplReads :
         LET got == PreplReceive(read)
         IN  /\ p_stream' = IF read.rl = "line" THEN Append(p_stream, read.line)
                            ELSE p_stream
             /\ p_got' = Append(p_got, [read |-> read, result |-> got])
             /\ p_pc' = IF got.res = "Panic" THEN "panicked" ELSE p_pc
    /\ UNCHANGED <<psender, preceiver, p_wbuf, p_wire, p_sendlog>>
    /\ UNCHANGED otherThanPrepl

\* prepl/mod.rs 96-110: the pair as new_sender_receiver builds it
PreplStart ==
    /\ p_pc = "connect"
    /\ psender = [session_id |-> "prepl_default_session", request_cnt |-> 0]
    /\ preceiver = [session_id |-> "", request_cnt |-> 0]
    /\ p_wbuf = <<>>
    /\ p_wire = <<>>
    /\ p_stream = <<>>
    /\ p_sendlog = <<>>
    /\ p_got = <<>>

PreplNext ==
    \/ PreplNewSenderReceiver
    \/ PreplSendRequest
    \/ PreplReceiveResponse

(***************************************************************************)
(* The program of src/main.rs: values and pure functions                   *)
(***************************************************************************)
\* neovim_lib::Value (msgpack) as far as the conversion of main.rs 406-437 looks
NvStr(s) == [nv |-> "Str", s |-> s]
NvInt(i) == [nv |-> "Int", i |-> i]
NvArr(a) == [nv |-> "Arr", a |-> a]
NvMap(m) == [nv |-> "Map", m |-> m]

\* main.rs 425: `as i32` of an i64. The integers of the model are those of the
\* i32 range, which the cast leaves as they are.
AsI32(i) == i

\* main.rs 419: k.as_str().unwrap_or("")
KeyStr(k) == IF k.nv = "Str" THEN k.s ELSE ""

\* main.rs 416-431: the pairs of the map, in order, inserted into `hm`
RECURSIVE ConvertPairs(_, _)
ConvertPairs(pairs, hm) ==
    IF pairs = <<>> THEN Ok(BMap(hm))
    ELSE LET k == Head(pairs)[1]
             v == Head(pairs)[2]
         IN  CASE v.nv = "Str" ->
                    ConvertPairs(Tail(pairs), Insert(hm, BStr(KeyStr(k)), BStr(v.s)))
               [] v.nv = "Int" ->
                    ConvertPairs(Tail(pairs), Insert(hm, BStr(KeyStr(k)), BInt(AsI32(v.i))))
               [] OTHER -> Err("Failed to convert NVIM message to bencode::Value")

\* impl TryFrom<Vec<neovim_lib::Value>> for bencode::Value; a map is the sequence
\* of its pairs
NvimTryFrom(nvim_arg) ==
    IF nvim_arg = <<>> THEN Panic
    ELSE IF Head(nvim_arg).nv = "Map" THEN ConvertPairs(Head(nvim_arg).m, <<>>)
    ELSE Err("Unable to convert NVIM message to bencode::Value")

\* insert_nrepl_session (the value is always a map here)
insert_nrepl_session(val, session) ==
    IF val.t = "Map" THEN Ok(BMap(Insert(val.m, BStr("session"), BStr(session))))
    ELSE Err("Invalid bencode, cannot insert session key to nREPL request")

\* main.rs 308-311: the clone request
CloneRequest == BMap(Insert(<<>>, BStr("op"), BStr("clone")))
\* main.rs 483-485: the close request
CloseRequest == BMap(Insert(<<>>, BStr("op"), BStr("close")))

\* texts of more than one line that the model's server sends
TxtOutTwo == "a\nb"
TxtErrTwo == "boom\nbang"
\* a value of more than 70 bytes with a multi-byte character across byte 70
TxtLongUtf8 == "<71 bytes, bytes 70-71 one character>"

\* the logsize argument of main.rs 401-403
LogSizes == {3}

\* str::lines
Lines(text) ==
    CASE text = TxtOutTwo -> <<"a", "b">>
      [] text = TxtErrTwo -> <<"boom", "bang">>
      [] text = "" -> <<>>
      [] OTHER -> <<text>>

\* str::replace('\n', " ")
NewlinesToSpaces(text) ==
    CASE text = TxtOutTwo -> "a b"
      [] text = TxtErrTwo -> "boom bang"
      [] OTHER -> text

\* main.rs 220: &eval_result[0..min(70, len)] panics off a character boundary
SliceTo70Panics(text) == text = TxtLongUtf8

\* LogBuf::get_prefix
get_prefix(key) ==
    CASE key = "err" -> ";x "
      [] key = "nrepl.middleware.caught/throwable" -> ";  "
      [] key = "out" -> ";"
      [] key = "value" -> ""
      [] OTHER -> ";"

ExtractKeys == <<"err", "nrepl.middleware.caught/throwable", "out", "value">>

\* main.rs 194-195: the lines of one text, each with the prefix of its key
RECURSIVE Prefixed(_, _)
Prefixed(prefix, ls) ==
    IF ls = <<>> THEN <<>> ELSE <<prefix \o Head(ls)>> \o Prefixed(prefix, Tail(ls))

\* main.rs 192-201: the keys from the i-th on
RECURSIVE ExtractFrom(_, _)
ExtractFrom(hm, i) ==
    IF i > Len(ExtractKeys) THEN <<>>
    ELSE (IF HasStr(hm, ExtractKeys[i])
          THEN Prefixed(get_prefix(ExtractKeys[i]), Lines(hm[BStr(ExtractKeys[i])].s))
          ELSE <<>>)
         \o ExtractFrom(hm, i + 1)

\* LogBuf::extract_lines: Ok(<<lines, value>>) or an error
extract_lines(val) ==
    IF val.t = "Map"
    THEN Ok(<<ExtractFrom(val.m, 1),
              IF HasStr(val.m, "value") THEN val.m[BStr("value")].s ELSE "">>)
    ELSE Err("Unexpected bencode value")

\* a worker that takes no status for the end of the session
is_exitNever(val) == FALSE

\* is_exit
is_exit(val) ==
    /\ val.t = "Map"
    /\ HasList(val.m, "status")
    /\ Contains(val.m[BStr("status")].l, BStr("session-closed"))

\* LogBuf::echo_eval_result: what it writes with nvim.out_write ("none" when
\* it writes nothing), or "panic" when the slice of main.rs 220 panics
echo_eval_result(val, eval_result) ==
    IF val.t # "Map" THEN "none"
    ELSE IF HasList(val.m, "status")
    THEN IF eval_result # "" /\ Contains(val.m[BStr("status")].l, BStr("done"))
         THEN IF SliceTo70Panics(eval_result) THEN "panic" ELSE eval_result \o "\n"
         ELSE "none"
    ELSE IF HasStr(val.m, "err")
    THEN "ERROR: " \o NewlinesToSpaces(val.m[BStr("err")].s) \o "\n"
    ELSE "none"

\* main.rs 162-168: whether append_lines trims, and the cursor line it computes
Trims(lb, lines_cnt) == lb.cursor_line + lines_cnt > lb.max_lines
TrimCnt(lb) == lb.max_lines \div 2
NewCursorLine(lb, lines_cnt) ==
    IF Trims(lb, lines_cnt)
    THEN lb.max_lines - TrimCnt(lb) + lines_cnt
    ELSE lb.cursor_line + lines_cnt

\* nvim executing the calls of main.rs 158-181 in order on a buffer of `n`
\* lines, stopping at the first call that fails: nvim_buf_set_lines(0, trim_cnt)
\* with strict indexing, the append at the end, nvim_win_set_cursor
CallAtomic(n, cursor, trims, trim_cnt, lines_cnt, cursor_line) ==
    LET trim_ok == ~trims \/ (0 <= trim_cnt /\ trim_cnt <= n)
        \* deleting every line leaves the one empty line a buffer always has
        left == IF trims /\ trim_ok THEN n - trim_cnt ELSE n
        after == IF left = 0 THEN 1 ELSE left
        n2 == IF trim_ok THEN after + lines_cnt ELSE n
        cursor_ok == trim_ok /\ 1 <= cursor_line /\ cursor_line <= n2
    IN  [ lines |-> n2, appended |-> trim_ok, trimmed |-> trims /\ trim_ok,
          cursor |-> IF cursor_ok THEN cursor_line
                     ELSE IF cursor > n2 THEN n2 ELSE cursor,
          cursor_ok |-> cursor_ok ]

(***************************************************************************)
(* The program of src/main.rs: the two threads and their environment       *)
(***************************************************************************)
MainFrames ==
    { Frame({"new-session"}), Frame({"value", "ns"}), FrameWith({"value", "ns"}, "value", BStr(TxtLongUtf8)),
      FrameWith({"out"}, "out", BStr(TxtOutTwo)),
      FrameWith({"err"}, "err", BStr(TxtErrTwo)),
      Frame({"status"}),
      FrameWith({"status"}, "status", BList(<<BStr("done"), BStr("session-closed")>>)),
      BInt(1) }
MainItems == {ItemFrame(val) : val \in MainFrames} \cup {ItemBad}

EvalArgs ==
    <<NvMap(<< <<NvStr("op"), NvStr("eval")>>, <<NvStr("code"), NvStr("(+ 1 1)")>>,
               <<NvStr("line"), NvInt(0 - 7)>>, <<NvInt(1), NvStr("k")>> >>)>>
InterruptArgs ==
    <<NvMap(<< <<NvStr("op"), NvStr("interrupt")>> >>)>>
\* a close request the host writes itself
CloseArgs ==
    <<NvMap(<< <<NvStr("op"), NvStr("close")>> >>)>>
HostEvents ==
    { [event |-> "nrepl", args |-> EvalArgs],
      [event |-> "nrepl", args |-> InterruptArgs],
      [event |-> "nrepl", args |-> CloseArgs],
      [event |-> "nrepl", args |-> <<NvMap(<< <<NvStr("op"), NvArr(<<>>)>> >>)>>],
      [event |-> "nrepl", args |-> <<>>],
      [event |-> "exit", args |-> <<>>],
      [event |-> "stop", args |-> <<>>],
      [event |-> "eval", args |-> EvalArgs] }

ProcessOver == m_pc \in {"done_ok", "done_err", "panicked"}
WorkerOver == w_pc \in {"exited_ok", "exited_err", "panicked"}
\* the receiver has something to return: an item, or the end of the stream
CanRecv == m_rd < Len(m_emitted) \/ m_closed
\* the item the receiver reads next
NextItem == m_emitted[m_rd + 1]

\* main.rs NreplReceiver::recv on what the socket holds: Ok(value) or an error
MainRecv ==
    IF m_rd < Len(m_emitted)
    THEN IF NextItem.item = "frame" THEN Ok(NextItem.val)
         ELSE Err("Invalid bencode from nREPL")
    ELSE Err("parse_bencode failed")

\* main.rs NreplSender::send of `val`
MainSend(wbuf, wire, val, outcome) ==
    [ wbuf |-> CASE outcome = "ok" -> <<>>
                 [] outcome = "write_err" -> wbuf
                 [] outcome = "flush_err" -> Append(wbuf, val),
      wire |-> IF outcome = "ok" THEN wire \o wbuf \o <<val>> ELSE wire,
      res |-> IF outcome = "ok" THEN "Ok" ELSE "Err" ]

\* run() 457-461 and start_nrepl_session 308-311: logger, arguments, the
\* connection, and the clone request
MainStart ==
    /\ m_pc = "start"
    /\ \/ /\ m_pc' = "done_err"
          /\ UNCHANGED <<m_wbuf, m_wire>>
       \/ \E outcome \in IoOutcomes :
            LET r == MainSend(m_wbuf, m_wire, CloneRequest, outcome)
            IN  /\ m_wbuf' = r.wbuf
                /\ m_wire' = r.wire
                /\ m_pc' = IF r.res = "Ok" THEN "handshake" ELSE "done_err"
    /\ UNCHANGED <<w_pc, w_exit, m_sender, nrepl_session, m_emitted, m_rd, m_closed,
                   m_events, m_consumed, m_hostclosed, m_cmdsends, m_sink, m_appends, last_result,
                   logbuf, nvim_buf>>
    /\ UNCHANGED otherThanMain

\* start_nrepl_session 313-336, then run() 464-470: the reply to clone, the
\* NVIM session, LogBuf::new, and the spawn of the worker
MainHandshake ==
    /\ m_pc = "handshake"
    /\ CanRecv
    /\ m_rd' = IF m_rd < Len(m_emitted) THEN m_rd + 1 ELSE m_rd
    /\ LET got == MainRecv
           ok == /\ got.res = "Ok"
                 /\ got.v.t = "Map"
                 /\ HasStr(got.v.m, "new-session")
       IN  IF ok
           THEN /\ m_sender' = [session |-> got.v.m[BStr("new-session")].s]
                /\ nrepl_session' = got.v.m[BStr("new-session")].s
                /\ \/ /\ m_pc' = "done_err"
                      /\ UNCHANGED <<w_pc, logbuf, nvim_buf>>
                   \/ \E max_lines \in LogSizes, n \in 1..MaxInitLines :
                        /\ logbuf' = [cursor_line |-> 1, max_lines |-> max_lines]
                        /\ nvim_buf' = [lines |-> n, cursor |-> 1]
                        /\ w_pc' = "starting"
                        /\ m_pc' = "commands"
           ELSE /\ m_pc' = "done_err"
                /\ UNCHANGED <<m_sender, nrepl_session, w_pc, logbuf, nvim_buf>>
    /\ UNCHANGED <<w_exit, m_wbuf, m_wire, m_emitted, m_closed, m_events, m_consumed,
                   m_hostclosed, m_cmdsends, m_sink, m_appends, last_result>>
    /\ UNCHANGED otherThanMain

\* run() 476-480: the request of an "nrepl" event: Ok(the dictionary sent),
\* an error, or a panic
NreplEventRequest(args, session) ==
    LET bc_value == NvimTryFrom(args)
    IN  IF bc_value.res = "Ok" THEN insert_nrepl_session(bc_value.v, session)
        ELSE bc_value

\* run() 474-487: whether the event is forwarded as a request
IsRequestEvent(event) == event = "nrepl"

\* the loop goes on after the close request as after any other
AfterCommandNoBreak(event, res) ==
    IF res = "Err" THEN "done_err" ELSE "commands"
\* run() 480, 486-487: where run() goes after the send: `?` ends it on an
\* error, a forwarded request goes on with the loop, the close request breaks
AfterCommand(event, res) ==
    CASE res = "Err" -> "done_err"
      [] IsRequestEvent(event) -> "commands"
      [] OTHER -> "join"

\* run() 472-489: one turn of the command loop, on the next event of the host
MainCommand ==
    /\ m_pc = "commands"
    /\ m_consumed < Len(m_events)
    /\ m_consumed' = m_consumed + 1
    /\ LET e == m_events[m_consumed + 1]
           req == IF IsRequestEvent(e.event)
                  THEN NreplEventRequest(e.args, nrepl_session)
                  ELSE Ok(CloseRequest)
       IN  IF req.res = "Ok"
           THEN \E outcome \in IoOutcomes :
                  LET r == MainSend(m_wbuf, m_wire, req.v, outcome)
                  IN  /\ m_wbuf' = r.wbuf
                      /\ m_wire' = r.wire
                      /\ m_cmdsends' = Append(m_cmdsends,
                            [ev |-> m_consumed + 1, val |-> req.v, res |-> r.res])
                      /\ m_pc' = AfterCommand(e.event, r.res)
           ELSE /\ m_pc' = IF req.res = "Panic" THEN "panicked" ELSE "done_err"
                /\ UNCHANGED <<m_wbuf, m_wire, m_cmdsends>>
    /\ UNCHANGED <<w_pc, w_exit, m_sender, nrepl_session, m_emitted, m_rd, m_closed,
                   m_events, m_hostclosed, m_sink, m_appends, last_result, logbuf, nvim_buf>>
    /\ UNCHANGED otherThanMain

\* run() 472: the event channel is closed and empty, the for loop ends
MainChannelClosed ==
    /\ m_pc = "commands"
    /\ m_consumed = Len(m_events)
    /\ m_hostclosed
    /\ m_pc' = "join"
    /\ UNCHANGED <<w_pc, w_exit, m_sender, nrepl_session, m_wbuf, m_wire, m_emitted, m_rd,
                   m_closed, m_events, m_consumed, m_hostclosed, m_cmdsends, m_sink, m_appends,
                   last_result, logbuf, nvim_buf>>
    /\ UNCHANGED otherThanMain

\* run() 492: nrepl.join().expect("Thread join error!")?
MainJoin ==
    /\ m_pc = "join"
    /\ WorkerOver
    /\ m_pc' = CASE w_pc = "exited_ok" -> "done_ok"
                 [] w_pc = "exited_err" -> "done_err"
                 [] w_pc = "panicked" -> "panicked"
    /\ UNCHANGED <<w_pc, w_exit, m_sender, nrepl_session, m_wbuf, m_wire, m_emitted, m_rd,
                   m_closed, m_events, m_consumed, m_hostclosed, m_cmdsends, m_sink, m_appends,
                   last_result, logbuf, nvim_buf>>
    /\ UNCHANGED otherThanMain

\* nrepl_loop 249-252: the worker's own NVIM connection
WorkerStart ==
    /\ w_pc = "starting"
    /\ ~ProcessOver
    /\ \/ w_pc' = "recv" /\ w_exit' = w_exit
       \/ w_pc' = "exited_err" /\ w_exit' = [cause |-> "nvim_connect", at |-> m_rd]
    /\ UNCHANGED <<m_pc, m_sender, nrepl_session, m_wbuf, m_wire, m_emitted, m_rd,
                   m_closed, m_events, m_consumed, m_hostclosed, m_cmdsends, m_sink, m_appends,
                   last_result, logbuf, nvim_buf>>
    /\ UNCHANGED otherThanMain

\* a receiver that returns the newest item of the queue
RecvIndexNewest(rd, len) == len

\* the item of the queue that recv returns: the oldest
RecvIndex(rd, len) == rd + 1

\* nrepl_loop 260-263 on the value `val`, the `src`-th item of the server, with
\* the RPC results `rpc1` (call_atomic) and `rpc2` (out_write): the exit of the
\* worker ("none" when it stays in the loop), the calls made, whether
\* append_lines (261) was called, the new state
WorkerHandle(val, src, rpc1, rpc2) ==
    LET ex == extract_lines(val)
        lines == ex.v[1]
        lines_cnt == Len(lines)
        calls1 == lines # <<>>
        cur == NewCursorLine(logbuf, lines_cnt)
        at == CallAtomic(nvim_buf.lines, nvim_buf.cursor, Trims(logbuf, lines_cnt),
                         TrimCnt(logbuf), lines_cnt, cur)
        lb1 == IF calls1 THEN [logbuf EXCEPT !.cursor_line = cur] ELSE logbuf
        sink1 == IF calls1
                 THEN <<[call |-> "call_atomic", src |-> src, lines |-> lines,
                         res |-> IF rpc1 THEN "Ok" ELSE "Err",
                         appended |-> rpc1 /\ at.appended]>>
                 ELSE <<>>
        nb1 == IF calls1 /\ rpc1 THEN [lines |-> at.lines, cursor |-> at.cursor]
               ELSE nvim_buf
        echo == echo_eval_result(val, last_result)
        calls2 == echo \notin {"none", "panic"}
        sink2 == IF calls2
                 THEN <<[call |-> "out_write", src |-> src, text |-> echo,
                         res |-> IF rpc2 THEN "Ok" ELSE "Err"]>>
                 ELSE <<>>
    IN  IF ex.res = "Err"
        THEN [exit |-> "extract_err", pc |-> "exited_err", sink |-> <<>>, appends |-> FALSE,
              logbuf |-> logbuf, nvim_buf |-> nvim_buf, last_result |-> last_result]
        ELSE IF calls1 /\ ~rpc1
        THEN [exit |-> "sink_err", pc |-> "exited_err", sink |-> sink1, appends |-> TRUE,
              logbuf |-> lb1, nvim_buf |-> nb1, last_result |-> last_result]
        ELSE IF echo = "panic"
        THEN [exit |-> "panic", pc |-> "panicked", sink |-> sink1, appends |-> TRUE,
              logbuf |-> lb1, nvim_buf |-> nb1, last_result |-> last_result]
        ELSE IF calls2 /\ ~rpc2
        THEN [exit |-> "sink_err", pc |-> "exited_err", sink |-> sink1 \o sink2, appends |-> TRUE,
              logbuf |-> lb1, nvim_buf |-> nb1, last_result |-> last_result]
        ELSE [exit |-> "none", pc |-> "recv", sink |-> sink1 \o sink2, appends |-> TRUE,
              logbuf |-> lb1, nvim_buf |-> nb1, last_result |-> ex.v[2]]

\* nrepl_loop 254-274: one turn of the loop
WorkerStep ==
    /\ w_pc = "recv"
    /\ ~ProcessOver
    /\ CanRecv
    /\ LET src == RecvIndex(m_rd, Len(m_emitted))
           has == m_rd < Len(m_emitted)
           item == m_emitted[src]
       IN  /\ m_rd' = IF has THEN m_rd + 1 ELSE m_rd
           /\ IF ~has \/ item.item # "frame"
              THEN /\ w_pc' = "exited_err"
                   /\ w_exit' = [cause |-> IF has THEN "decode_err" ELSE "end_of_stream",
                                 at |-> src]
                   /\ UNCHANGED <<m_sink, m_appends, last_result, logbuf, nvim_buf>>
              ELSE IF is_exit(item.val)
              THEN /\ w_pc' = "exited_ok"
                   /\ w_exit' = [cause |-> "session-closed", at |-> src]
                   /\ UNCHANGED <<m_sink, m_appends, last_result, logbuf, nvim_buf>>
              ELSE \E rpc1 \in BOOLEAN, rpc2 \in BOOLEAN :
                     LET h == WorkerHandle(item.val, src, rpc1, rpc2)
                     IN  /\ w_pc' = h.pc
                         /\ w_exit' = IF h.exit = "none" THEN w_exit
                                      ELSE [cause |-> h.exit, at |-> src]
                         /\ m_sink' = m_sink \o h.sink
                         /\ m_appends' = IF h.appends THEN Append(m_appends, src)
                                        ELSE m_appends
                         /\ last_result' = h.last_result
                         /\ logbuf' = h.logbuf
                         /\ nvim_buf' = h.nvim_buf
    /\ UNCHANGED <<m_pc, m_sender, nrepl_session, m_wbuf, m_wire, m_emitted, m_closed,
                   m_events, m_consumed, m_hostclosed, m_cmdsends>>
    /\ UNCHANGED otherThanMain

\* the nREPL server emits an item while someone is there to read it
ServerEmit ==
    /\ ~ProcessOver
    /\ m_pc # "start"
    /\ ~WorkerOver
    /\ ~m_closed
    /\ Len(m_emitted) < MaxEmit
    /\ Len(m_emitted) + Len(m_events) < MaxInputs
    /\ Len(m_emitted) - m_rd < MaxInbox
    /\ \E item \in MainItems : m_emitted' = Append(m_emitted, item)
    /\ UNCHANGED <<m_pc, w_pc, w_exit, m_sender, nrepl_session, m_wbuf, m_wire, m_rd,
                   m_closed, m_events, m_consumed, m_hostclosed, m_cmdsends, m_sink, m_appends,
                   last_result, logbuf, nvim_buf>>
    /\ UNCHANGED otherThanMain

\* the nREPL server closes the connection
ServerClose ==
    /\ ~ProcessOver
    /\ m_pc # "start"
    /\ ~WorkerOver
    /\ ~m_closed
    /\ m_closed' = TRUE
    /\ UNCHANGED <<m_pc, w_pc, w_exit, m_sender, nrepl_session, m_wbuf, m_wire, m_emitted,
                   m_rd, m_events, m_consumed, m_hostclosed, m_cmdsends, m_sink, m_appends,
                   last_result, logbuf, nvim_buf>>
    /\ UNCHANGED otherThanMain

\* the host issues an event on the channel of run() 466
HostEvent ==
    /\ m_pc = "commands"
    /\ ~m_hostclosed
    /\ Len(m_events) < MaxEvents
    /\ Len(m_emitted) + Len(m_events) < MaxInputs
    /\ \E e \in HostEvents : m_events' = Append(m_events, e)
    /\ UNCHANGED <<m_pc, w_pc, w_exit, m_sender, nrepl_session, m_wbuf, m_wire, m_emitted,
                   m_rd, m_closed, m_consumed, m_hostclosed, m_cmdsends, m_sink, m_appends,
                   last_result, logbuf, nvim_buf>>
    /\ UNCHANGED otherThanMain

\* the host closes the channel
HostClose ==
    /\ m_pc = "commands"
    /\ ~m_hostclosed
    /\ m_hostclosed' = TRUE
    /\ UNCHANGED <<m_pc, w_pc, w_exit, m_sender, nrepl_session, m_wbuf, m_wire, m_emitted,
                   m_rd, m_closed, m_events, m_consumed, m_cmdsends, m_sink, m_appends,
                   last_result, logbuf, nvim_buf>>
    /\ UNCHANGED otherThanMain

\* main.rs 50-56 and the state before run() has done anything
MainInit ==
    /\ m_pc = "start"
    /\ w_pc = "none"
    /\ w_exit = [cause |-> "none", at |-> 0]
    /\ m_sender = [session |-> "<no session>"]
    /\ nrepl_session = ""
    /\ m_wbuf = <<>>
    /\ m_wire = <<>>
    /\ m_emitted = <<>>
    /\ m_rd = 0
    /\ m_closed = FALSE
    /\ m_events = <<>>
    /\ m_consumed = 0
    /\ m_hostclosed = FALSE
    /\ m_cmdsends = <<>>
    /\ m_sink = <<>>
    /\ m_appends = <<>>
    /\ last_result = ""
    /\ logbuf = [cursor_line |-> 0, max_lines |-> 0]
    /\ nvim_buf = [lines |-> 1, cursor |-> 1]

MainThread == MainStart \/ MainHandshake \/ MainCommand \/ MainChannelClosed \/ MainJoin
WorkerThread == WorkerStart \/ WorkerStep

Next ==
    \/ MainStart
    \/ MainHandshake
    \/ MainCommand
    \/ MainChannelClosed
    \/ MainJoin
    \/ WorkerStart
    \/ WorkerStep
    \/ ServerEmit
    \/ ServerClose
    \/ HostEvent
    \/ HostClose

(***************************************************************************)
(* The backend detector (spec.md 4.2; src/ holds no code of it)            *)
(***************************************************************************)
\* the values of a byte
ByteValues == 0..255
\* the characters `{` and `d`
OpenBrace == 123
LetterD == 100

\* "compute 1+1" in the framed dialect's wire syntax
Probe == "d4:code7:(+ 1 1)2:op4:evale"

\* the detector that takes `{` for the framed dialect and `d` for the line one
SelectBackendSwapped(byte) ==
    CASE byte = OpenBrace -> "Framed"
      [] byte = LetterD -> "Line"
      [] OTHER -> "none"

\* the backend the leading byte of the response selects ("none": no REPL)
SelectBackend(byte) ==
    CASE byte = OpenBrace -> "Line"
      [] byte = LetterD -> "Framed"
      [] OTHER -> "none"

\* the socket is opened, or the connection fails
DetectConnect ==
    /\ d_pc = "connecting"
    /\ d_pc' \in {"probing", "failed"}
    /\ UNCHANGED <<d_wire, d_read, d_backend>>
    /\ UNCHANGED otherThanDetect

\* the probe is sent, or the write fails
DetectProbe ==
    /\ d_pc = "probing"
    /\ \/ d_pc' = "reading" /\ d_wire' = Append(d_wire, Probe)
       \/ d_pc' = "failed" /\ d_wire' = d_wire
    /\ UNCHANGED <<d_read, d_backend>>
    /\ UNCHANGED otherThanDetect

\* one byte of the response is read and decides; a read failure is fatal
DetectRead ==
    /\ d_pc = "reading"
    /\ \/ \E byte \in ByteValues :
            /\ d_read' = Append(d_read, byte)
            /\ d_backend' = SelectBackend(byte)
            /\ d_pc' = IF SelectBackend(byte) = "none" THEN "failed" ELSE "selected"
       \/ d_pc' = "failed" /\ UNCHANGED <<d_read, d_backend>>
    /\ d_wire' = d_wire
    /\ UNCHANGED otherThanDetect

DetectStart ==
    /\ d_pc = "connecting"
    /\ d_wire = <<>>
    /\ d_read = <<>>
    /\ d_backend = "none"

DetectNext == DetectConnect \/ DetectProbe \/ DetectRead

(***************************************************************************)
(* LogBuf::append_lines on its own: src/main.rs 155-185 keeps the line     *)
(* count in cursor_line, src/logbuf.rs 87-110 asks NVIM for it             *)
(***************************************************************************)
\* the logsize argument (main.rs 401-403): odd and even
LogBufSizes == {3, 4}

\* main.rs LogBuf::append_lines(lines) with lines.len() = lines_cnt on the
\* LogBuf `lb` and the buffer `nb`; `rpc` is whether call_atomic got through
append_lines(lb, nb, lines_cnt, rpc) ==
    LET calls == lines_cnt > 0
        trims == calls /\ Trims(lb, lines_cnt)
        cur == NewCursorLine(lb, lines_cnt)
        at == CallAtomic(nb.lines, nb.cursor, trims, TrimCnt(lb), lines_cnt, cur)
    IN  [ logbuf |-> IF calls THEN [lb EXCEPT !.cursor_line = cur] ELSE lb,
          nvim_buf |-> IF calls /\ rpc THEN [lines |-> at.lines, cursor |-> at.cursor]
                       ELSE nb,
          res |-> IF calls /\ ~rpc THEN "Err" ELSE "Ok",
          calls |-> calls,
          counted |-> lb.cursor_line,
          trims |-> trims,
          trim_cnt |-> TrimCnt(lb),
          cursor_line |-> cur ]

\* logbuf.rs LogBuf::append_lines: cursor_line is a local that starts at
\* buf.line_count (90); `rpc0` is whether that call got through
lb_append_lines(lb, nb, lines_cnt, rpc0, rpc) ==
    IF ~rpc0
    THEN [ logbuf |-> lb, nvim_buf |-> nb, res |-> "Err", calls |-> FALSE,
           counted |-> 0, trims |-> FALSE, trim_cnt |-> 0, cursor_line |-> 0 ]
    ELSE LET r == append_lines([cursor_line |-> nb.lines, max_lines |-> lb.max_lines],
                               nb, lines_cnt, rpc)
         IN  [r EXCEPT !.logbuf = lb]

\* the record of one append_lines call
CallRecord(impl, lb, nb, lines_cnt, r) ==
    [ impl |-> impl, max_lines |-> lb.max_lines, lines_cnt |-> lines_cnt,
      before |-> nb.lines, counted |-> r.counted, calls |-> r.calls, trims |-> r.trims,
      trim_cnt |-> r.trim_cnt, cursor_line |-> r.cursor_line, res |-> r.res,
      after |-> r.nvim_buf.lines, cursor |-> r.nvim_buf.cursor ]
NoCall == [impl |-> "none"]

\* LogBuf::new (main.rs 89-117, logbuf.rs 16-36) on a log buffer of n lines
LogBufNew ==
    /\ a_pc = "new"
    /\ a_pc' = "ready"
    /\ \E max_lines \in LogBufSizes, n \in 1..MaxInitLines :
         /\ a_logbuf' = [cursor_line |-> 1, max_lines |-> max_lines]
         /\ a_nvim' = [lines |-> n, cursor |-> 1]
         /\ b_logbuf' = [max_lines |-> max_lines]
         /\ b_nvim' = [lines |-> n, cursor |-> 1]
    /\ UNCHANGED <<a_call, a_cnt>>
    /\ UNCHANGED otherThanLog

\* one append_lines call of main.rs
MainAppendLines ==
    /\ a_pc = "ready"
    /\ a_cnt < MaxAppends
    /\ a_cnt' = a_cnt + 1
    /\ \E lines_cnt \in 0..MaxBatch, rpc \in BOOLEAN :
         LET r == append_lines(a_logbuf, a_nvim, lines_cnt, rpc)
         IN  /\ a_logbuf' = r.logbuf
             /\ a_nvim' = r.nvim_buf
             /\ a_call' = CallRecord("main.rs", a_logbuf, a_nvim, lines_cnt, r)
             \* nrepl_loop 261: `?` ends the only caller on an error
             /\ a_pc' = IF r.res = "Err" THEN "worker_gone" ELSE a_pc
    /\ UNCHANGED <<b_logbuf, b_nvim>>
    /\ UNCHANGED otherThanLog

\* one append_lines call of logbuf.rs
LbAppendLines ==
    /\ a_pc \in {"ready", "worker_gone"}
    /\ a_cnt < MaxAppends
    /\ a_cnt' = a_cnt + 1
    /\ \E lines_cnt \in 0..MaxBatch, rpc0 \in BOOLEAN, rpc \in BOOLEAN :
         LET r == lb_append_lines(b_logbuf, b_nvim, lines_cnt, rpc0, rpc)
         IN  /\ b_logbuf' = r.logbuf
             /\ b_nvim' = r.nvim_buf
             /\ a_call' = CallRecord("logbuf.rs", b_logbuf, b_nvim, lines_cnt, r)
    /\ UNCHANGED <<a_pc, a_logbuf, a_nvim>>
    /\ UNCHANGED otherThanLog

LogStart ==
    /\ a_pc = "new"
    /\ a_logbuf = [cursor_line |-> 0, max_lines |-> 0]
    /\ a_nvim = [lines |-> 1, cursor |-> 1]
    /\ b_logbuf = [max_lines |-> 0]
    /\ b_nvim = [lines |-> 1, cursor |-> 1]
    /\ a_call = NoCall
    /\ a_cnt = 0

LogBufNext == LogBufNew \/ MainAppendLines \/ LbAppendLines

(***************************************************************************)
(* Specifications                                                          *)
(***************************************************************************)
Init == NreplStart /\ PreplStart /\ MainInit /\ DetectStart /\ LogStart
Spec == Init /\ [][Next]_vars

\* The two threads are scheduled; the server and the host owe nothing.
LiveSpec == Init /\ [][Next]_vars /\ WF_vars(MainThread) /\ WF_vars(WorkerThread)

\* LiveSpec on connections with at most MaxExitInputs inputs
ShortConnection == Len(m_emitted) + Len(m_events) < MaxExitInputs
ShortServerEmit == ShortConnection /\ ServerEmit
ShortHostEvent == ShortConnection /\ HostEvent
ExitNext ==
    \/ MainStart
    \/ MainHandshake
    \/ MainCommand
    \/ MainChannelClosed
    \/ MainJoin
    \/ WorkerStart
    \/ WorkerStep
    \/ ShortServerEmit
    \/ ServerClose
    \/ ShortHostEvent
    \/ HostClose
ExitLiveSpec ==
    Init /\ [][ExitNext]_vars /\ WF_vars(MainThread) /\ WF_vars(WorkerThread)

NreplInit == NreplStart /\ PreplStart /\ MainInit /\ DetectStart /\ LogStart
NreplSpec == NreplInit /\ [][NreplNext]_vars
NreplRecvSpec == NreplInit /\ [][NreplRecvNext]_vars

PreplInit == NreplStart /\ PreplStart /\ MainInit /\ DetectStart /\ LogStart
PreplSpec == PreplInit /\ [][PreplNext]_vars

DetectInit == NreplStart /\ PreplStart /\ MainInit /\ DetectStart /\ LogStart
DetectSpec == DetectInit /\ [][DetectNext]_vars

LogBufInit == NreplStart /\ PreplStart /\ MainInit /\ DetectStart /\ LogStart
LogBufSpec == LogBufInit /\ [][LogBufNext]_vars

(***************************************************************************)
(* Claims about the Framed backend (NreplSpec) and the Line backend        *)
(* (PreplSpec)                                                             *)
(***************************************************************************)
\* new_sender_receiver of the Framed backend has returned Ok((sender, receiver))
NreplReturnedPair == n_pc = "ready"

\* C3: the Framed new_sender_receiver returns an error or a pair whose session
\* ids are identical and non-empty; never a pair with an empty session id.
C3_SessionIdNonEmpty ==
    NreplReturnedPair =>
        /\ sender.session_id = receiver.session_id
        /\ sender.session_id # ""

\* the i-th event of the handshake is the one the exact exchange has there
ExpectedEvent(i, e) ==
    CASE i = 1 -> e.ev = "send" /\ e.req = ReqNewSession /\ e.res = "Ok"
      [] i = 2 -> e.ev = "recv" /\ e.result.res = "Ok" /\ e.result.v.tag = "NewSession"
      [] i = 3 -> e.ev = "send" /\ e.req = ReqDisableNsMaps /\ e.res = "Ok"
      [] i = 4 -> e.ev = "recv" /\ e.result.res = "Ok" /\ e.result.v.tag = "Value"
      [] i = 5 -> /\ e.ev = "recv"
                  /\ e.result.res = "Ok"
                  /\ e.result.v.tag = "Status"
                  /\ \E j \in DOMAIN e.result.v.vec : e.result.v.vec[j] = "done"
      [] OTHER -> FALSE
Deviates(trace) == \E i \in DOMAIN trace : ~ExpectedEvent(i, trace[i])

\* C4: the handshake succeeds only for the exact exchange (send NewSession,
\* receive NewSession, send DisableNsMaps, receive Value, receive Status with
\* "done"); any other response, a Status without "done" or any send/receive
\* error makes new_sender_receiver return an error and no pair.
C4_ExactExchangeOrError ==
    /\ NreplReturnedPair => (Len(n_trace) = 5 /\ ~Deviates(n_trace))
    /\ Deviates(n_trace) => n_pc = "failed"

\* C5: a sent Interrupt carries an interrupt-id equal to the id the eval it
\* targets was sent with.
C5_InterruptIdIsEvalId ==
    \A i \in DOMAIN n_sendlog :
        (n_sendlog[i].req.v = "Interrupt" /\ n_sendlog[i].res = "Ok") =>
            n_sendlog[i].dict.m[BStr("interrupt-id")] = BStr(n_sendlog[i].target)

\* the calls of the history that returned Ok, in order
RECURSIVE OkSends(_)
OkSends(log) ==
    IF log = <<>> THEN <<>>
    ELSE (IF Head(log).res = "Ok" THEN <<Head(log)>> ELSE <<>>) \o OkSends(Tail(log))

\* C8: the request counter starts at 0 and grows by exactly one per successful
\* send: the ids of the successfully sent messages are "0", "1", "2", ... in
\* order, and the counter is the number of successful sends.
C8_RequestCounter ==
    LET oks == OkSends(n_sendlog)
    IN  /\ sender.request_cnt = Len(oks)
        /\ \A k \in DOMAIN oks :
              /\ oks[k].dict.m[BStr("id")] = BStr(Digits[k])
              /\ \A j \in DOMAIN oks : j # k => oks[j].dict.m[BStr("id")] # oks[k].dict.m[BStr("id")]

\* three sends succeeded around one that failed
C8_Witness ==
    /\ Len(OkSends(n_sendlog)) >= 3
    /\ \E i \in DOMAIN n_sendlog : i < Len(n_sendlog) /\ n_sendlog[i].res = "Err"

\* the operation name and the keys each Request variant specifies
OpName(v) ==
    CASE v = "NewSession" -> "clone"
      [] v = "DisableNsMaps" -> "eval"
      [] v = "Eval" -> "eval"
      [] v = "Exit" -> "close"
      [] v = "Interrupt" -> "interrupt"
VariantKeys(v) ==
    CASE v = "DisableNsMaps" -> {BStr("op"), BStr("code")}
      [] v = "Interrupt" -> {BStr("op"), BStr("interrupt-id")}
      [] OTHER -> {BStr("op")}
PayloadOf(req) == IF req.v \in {"Eval", "Interrupt"} THEN req.params ELSE <<>>
BookKeys == {BStr("op"), BStr("id"), BStr("session"), BStr("interrupt-id")}

C10_SessionIdsAgree ==
    /\ NreplReturnedPair => sender.session_id = receiver.session_id
    /\ p_pc = "ready" => psender.session_id = preceiver.session_id


(***************************************************************************)
(* Claims about the program of src/main.rs (Spec, LiveSpec)                *)
(***************************************************************************)
\* C1: whenever the worker loop has exited, for any reason, the host-facing
\* thread does not stay blocked forever on the next host command: the process
\* eventually terminates even if the host issues no further command.
C1_WorkerExitEndsProcess == WorkerOver ~> ProcessOver

\* the worker left its loop on a signal that the remote session is gone
FatalRemoteExit == w_exit.cause \in {"session-closed", "end_of_stream", "decode_err"}

\* C2: when the receiver observes a Status holding "session-closed", an end of
\* stream or a decode error, the worker tells the display sink about it before
\* it leaves the loop; it never exits silently on these events.
C2_FatalExitNotified ==
    FatalRemoteExit => \E i \in DOMAIN m_sink : m_sink[i].src = w_exit.at

\* the items the worker has taken from the receiver and handled to the end
Handled ==
    {k \in 2..m_rd : m_emitted[k].item = "frame" /\ (WorkerOver => k # w_exit.at)}

\* the lines nrepl_loop has to show for the k-th item of the server
ShownLines(k) == extract_lines(m_emitted[k].val).v[1]

\* C6: the display sink observes the responses in exactly the order the server
\* emitted them: the worker hands over the oldest unread response, one at a
\* time, never reorders, repeats or skips one, whatever the host sends meanwhile.
C6_SinkInServerOrder ==
    /\ \A i, j \in DOMAIN m_sink :
          i < j =>
            /\ m_sink[i].src <= m_sink[j].src
            /\ m_sink[i].call = m_sink[j].call => m_sink[i].src < m_sink[j].src
    /\ \A i \in DOMAIN m_sink :
          /\ m_sink[i].src \in 2..m_rd
          /\ m_emitted[m_sink[i].src].item = "frame"
          /\ m_sink[i].call = "call_atomic" => m_sink[i].lines = ShownLines(m_sink[i].src)
          /\ m_sink[i].call = "out_write" =>
                \/ HasStr(m_emitted[m_sink[i].src].val.m, "err")
                \/ HasList(m_emitted[m_sink[i].src].val.m, "status")
    /\ \A k \in Handled :
          ShownLines(k) # <<>> =>
            \E i \in DOMAIN m_sink : m_sink[i].call = "call_atomic" /\ m_sink[i].src = k

\* two responses were queued behind each other, the sink has shown both, and
\* the host-facing thread has sent a request meanwhile
C6_Witness ==
    /\ \E i, j \in DOMAIN m_sink :
          /\ m_sink[i].call = "call_atomic" /\ m_sink[i].src = 2 /\ m_sink[i].res = "Ok"
          /\ m_sink[j].call = "call_atomic" /\ m_sink[j].src = 3 /\ m_sink[j].res = "Ok"
          /\ m_sink[i].lines # m_sink[j].lines
    /\ \E k \in DOMAIN m_cmdsends : m_cmdsends[k].res = "Ok"

\* C7: each host command is translated into exactly one send call, and the
\* requests are written to the socket in exactly the order the host issued them.
C7_OneSendPerCommandInOrder ==
    /\ Len(m_cmdsends) = m_consumed
    /\ \A k \in DOMAIN m_cmdsends : m_cmdsends[k].ev = k
    /\ m_wire # <<>> =>
          LET oks == OkSends(m_cmdsends)
          IN  m_wire = <<CloneRequest>> \o [k \in 1..Len(oks) |-> oks[k].val]

\* a close request has been written to the socket
CloseSent ==
    \E k \in DOMAIN m_cmdsends : m_cmdsends[k].val = CloseRequest /\ m_cmdsends[k].res = "Ok"

\* the host-facing thread has left the command loop of run() 472-489 and waits
\* for the worker at the join of 492
LeftCommandLoop == m_pc = "join"

\* C11: on every path by which the host-facing thread leaves the command loop
\* it has sent the close request, and only then joins the worker; an error or
\* a panic of the worker seen at the join makes the run fail.
C11_CloseSentBeforeJoin ==
    /\ LeftCommandLoop => CloseSent
    /\ m_pc = "done_ok" => w_pc = "exited_ok"

\* the worker has entered its receive loop and left it again
WorkerLoopStopped == WorkerOver /\ w_exit.cause # "nvim_connect"

\* C12: the worker's receive loop stops only because the server closed the
\* connection (end of stream) or emitted a status holding "session-closed"; a
\* close request of the host by itself never stops it.
C12_WorkerStopsOnlyOnServerClose ==
    WorkerLoopStopped => w_exit.cause \in {"end_of_stream", "session-closed"}

\* the session id the server gave in its reply to the clone request
HandshakeSession == m_emitted[1].val.m[BStr("new-session")].s

\* C13: the session id is written once, during the handshake and before the
\* worker is spawned, and never modified afterwards: every request sent after
\* the worker started carries the session id obtained at the handshake.
C13_SessionIdWriteOnce ==
    /\ w_pc = "none" /\ m_pc \in {"start", "handshake"} =>
          nrepl_session = "" /\ m_sender.session = "<no session>"
    /\ w_pc # "none" =>
          /\ nrepl_session = HandshakeSession
          /\ m_sender.session = HandshakeSession
          /\ \A k \in DOMAIN m_cmdsends :
                /\ HasStr(m_cmdsends[k].val.m, "session")
                /\ m_cmdsends[k].val.m[BStr("session")] = BStr(HandshakeSession)

(***************************************************************************)
(* Claims about the receiving side of the Framed backend (NreplRecvSpec)   *)
(***************************************************************************)
\* the keys Response::try_from is specified to probe, highest priority first
PriorityOrder == <<"new-session", "err", "out", "ex", "status", "value">>

\* the Response variant specified for each of them
VariantOfKey(key) ==
    CASE key = "new-session" -> "NewSession"
      [] key = "err" -> "Err"
      [] key = "out" -> "Out"
      [] key = "ex" -> "Exception"
      [] key = "status" -> "Status"
      [] key = "value" -> "Value"

\* the key is present with a value of its kind: a list for status, else a string
KeyPresent(hm, key) == IF key = "status" THEN HasList(hm, key) ELSE HasStr(hm, key)

\* the dictionary holds one of the known keys
AnyKnownKey(hm) == \E i \in DOMAIN PriorityOrder : KeyPresent(hm, PriorityOrder[i])

\* the known key of highest priority that the dictionary holds
TopKey(hm) ==
    PriorityOrder[CHOOSE i \in DOMAIN PriorityOrder :
                    /\ KeyPresent(hm, PriorityOrder[i])
                    /\ \A j \in 1..(i - 1) : ~KeyPresent(hm, PriorityOrder[j])]

\* the latest receive decoded a dictionary
ReceivedDict == n_last.item.item = "frame" /\ n_last.item.val.t = "Map"

\* that dictionary is one the receiver is specified to reject: it holds no
\* known key, or `value` is its only known key and `ns` is missing
RejectedDict ==
    LET hm == n_last.item.val.m
    IN  \/ ~AnyKnownKey(hm)
        \/ TopKey(hm) = "value" /\ ~HasStr(hm, "ns")

\* C14: the Framed receiver classifies a decoded dictionary by the first
\* matching key in the order new-session, err, out, ex, status, value: the
\* Response is the variant of the highest-priority key the frame holds.
C14_PriorityOrder ==
    (ReceivedDict /\ ~RejectedDict) =>
        /\ n_last.result.res = "Ok"
        /\ n_last.result.v.tag = VariantOfKey(TopKey(n_last.item.val.m))

\* C15: the Framed receiver returns an error for every decoded frame that
\* matches none of the known keys and for one whose only known key is `value`
\* with no `ns`; every other decoded frame yields a Response.
C15_ProtocolErrors ==
    n_last.item.item = "frame" =>
        IF ReceivedDict /\ ~RejectedDict
        THEN n_last.result.res = "Ok"
        ELSE n_last.result.res = "Err"

HasCode(req) ==
    /\ req.v = "Eval"
    /\ PStr("code") \in DOMAIN req.params
    /\ req.params[PStr("code")].param = "Str"

\* the call wrote `text`, and nothing else, behind what the socket had received
\* and what the BufWriter still held
Wrote(e, text) ==
    /\ e.text = text
    /\ e.res = "Ok" =>
          /\ Len(e.wire_after) > Len(e.wire)
          /\ e.wire_after[Len(e.wire_after)] = text
          /\ \A i \in DOMAIN e.wire : e.wire_after[i] = e.wire[i]
    /\ e.res = "Err" => e.wire_after = e.wire

\* the call wrote nothing and returned Ok
WroteNothing(e) == e.text = "" /\ e.res = "Ok" /\ e.wire_after = e.wire

\* C17: the Line sender writes, for Eval, the `code` entry followed by a
\* newline, or nothing if there is no `code` string; for Exit the quit token
\* ":repl/quit\n"; for every other variant nothing, returning Ok.
C17_LineSender ==
    \A i \in DOMAIN p_sendlog :
        LET e == p_sendlog[i]
        IN  CASE HasCode(e.req) -> Wrote(e, e.req.params[PStr("code")].s \o "\n")
              [] e.req.v = "Eval" /\ ~HasCode(e.req) -> WroteNothing(e)
              [] e.req.v = "Exit" -> Wrote(e, ":repl/quit\n")
              [] OTHER -> WroteNothing(e)

\* an Eval with code was written, and then a variant that writes nothing was sent
C17_Witness ==
    /\ Len(p_sendlog) = 2
    /\ HasCode(p_sendlog[1].req) /\ p_sendlog[1].res = "Ok"
    /\ p_sendlog[2].req.v \in {"Interrupt", "NewSession", "DisableNsMaps"}
    /\ p_wire = <<NsMapsToggle, "(+ 1 1)\n">>

\* the line read is a map with a keyword at :tag
TaggedLine(read) ==
    /\ read.rl = "line"
    /\ read.line.read.rd = "Ok"
    /\ read.line.read.v.k = "Map"
    /\ EKeyword("tag") \in DOMAIN read.line.read.v.m
    /\ read.line.read.v.m[EKeyword("tag")].k = "Keyword"

\* the field of a map, or the default when it is absent
FieldOr(map, key, field, default) ==
    IF EKeyword(key) \in DOMAIN map THEN map[EKeyword(key)][field] ELSE default

\* the Response the dispatch on :tag is specified to give for the map
Dispatched(map, result) ==
    LET tag == map[EKeyword("tag")].s
    IN  CASE tag = "ret" /\ FieldOr(map, "exception", "b", FALSE) ->
                result.res = "Ok" /\ result.v.tag = "Exception"
          [] tag = "ret" ->
                result = Ok(RValue(FieldOr(map, "val", "s", ""), FieldOr(map, "ns", "s", ""),
                                   FieldOr(map, "ms", "i", 0), FieldOr(map, "form", "s", "")))
          [] tag \in {"out", "err"} -> result = Ok(ROut(FieldOr(map, "val", "s", "")))
          [] OTHER -> result = Ok(ROther(tag))

\* C18: the Line receiver reads one line per receive call and dispatches on
\* its tag: ret with the exception flag gives Exception, ret otherwise
\* Value(val, ns, ms, form) with defaults for absent fields, out and err the
\* output variant with val, any other tag Other with the tag name.
C18_LineDispatch ==
    /\ p_pc \in {"ready", "panicked"} =>
          Len(p_stream) = 1 + Cardinality({i \in DOMAIN p_got : p_got[i].read.rl = "line"})
    /\ \A i \in DOMAIN p_got :
          TaggedLine(p_got[i].read) =>
              Dispatched(p_got[i].read.line.read.v.m, p_got[i].result)

\* the line read does not parse to a map with a :tag
ParseFailure(read) ==
    /\ read.rl = "line"
    /\ \/ read.line.read.rd \in {"None", "Err"}
       \/ read.line.read.v.k # "Map"
       \/ EKeyword("tag") \notin DOMAIN read.line.read.v.m

\* C19: every parse failure of an inbound line (malformed text, an empty
\* line, a map with no tag) is returned by receive as a failed Result; none
\* of them stops the caller in another way.
C19_ParseFailuresReturned ==
    \A i \in DOMAIN p_got :
        ParseFailure(p_got[i].read) => p_got[i].result.res = "Err"

(***************************************************************************)
(* Claims about the command loop of src/main.rs (Spec)                     *)
(***************************************************************************)
\* the send calls the command loop made for the k-th event of the host
SendsFor(k) == {i \in DOMAIN m_cmdsends : m_cmdsends[i].ev = k}

\* the k-th event was forwarded as the request its arguments describe
ForwardedAsRequest(k) ==
    LET req == NreplEventRequest(m_events[k].args, nrepl_session)
    IN  /\ req.res = "Ok"
        /\ \E i \in SendsFor(k) : m_cmdsends[i].val = req.v

\* the k-th event was treated as Exit: the close request was sent for it and
\* the command loop took no further event
TreatedAsExit(k) ==
    /\ \E i \in SendsFor(k) : m_cmdsends[i].val = CloseRequest
    /\ k = m_consumed
    /\ m_pc # "commands"

\* C20: a host command that is a request (the event "nrepl") is forwarded as a
\* request; every other command name, exit, stop or unrecognised, is treated as
\* Exit: the close request is sent and the command loop ends.
C20_CommandDispatch ==
    \A k \in 1..m_consumed :
        IF m_events[k].event = "nrepl" THEN ForwardedAsRequest(k) ELSE TreatedAsExit(k)


(***************************************************************************)
(* Claims about the exception decoder of the Line backend (PreplSpec)      *)
(***************************************************************************)
RECURSIVE SplitLines(_, _)
SplitLines(str, cur) ==
    IF str = <<>> THEN (IF cur = <<>> THEN <<>> ELSE <<cur>>)
    ELSE IF Head(str) = "\n" THEN <<cur>> \o SplitLines(Tail(str), <<>>)
    ELSE SplitLines(Tail(str), Append(cur, Head(str)))

\* the lines of a text
TextLines(str) == SplitLines(str, <<>>)

\* a cause map that carries a message string
IsMessage(val) ==
    /\ val.k = "Map"
    /\ EKeyword("message") \in DOMAIN val.m
    /\ val.m[EKeyword("message")].k = "String"
\* a frame of the trace, and a token of a frame
IsFrame(val) == val.k = "Vector"
IsToken(val) == val.k \in {"Symbol", "String", "Integer"}
TokenText(val) == IF val.k = "Integer" THEN i64_to_string(val.i) ELSE val.s

\* the tokens joined by single spaces
RECURSIVE JoinSpaces(_)
JoinSpaces(toks) ==
    IF toks = <<>> THEN <<>>
    ELSE IF Len(toks) = 1 THEN <<TokenText(toks[1])>>
    ELSE <<TokenText(Head(toks)), " ">> \o JoinSpaces(Tail(toks))

\* the document parses to a map whose :via and :trace are sequences
WellFormedDoc(doc) ==
    LET rd == EdnRead(doc)
    IN  /\ rd.rd = "Ok"
        /\ rd.v.k = "Map"
        /\ {EKeyword("via"), EKeyword("trace")} \subseteq DOMAIN rd.v.m
        /\ rd.v.m[EKeyword("via")].k = "Vector"
        /\ rd.v.m[EKeyword("trace")].k = "Vector"

\* one line per message of :via, in order
MessageLines(doc) ==
    LET msgs == SelectSeq(EdnRead(doc).v.m[EKeyword("via")].v, IsMessage)
    IN  [i \in DOMAIN msgs |-> <<msgs[i].m[EKeyword("message")].s>>]
\* one line per frame of :trace, in order
FrameLines(doc) ==
    LET frames == SelectSeq(EdnRead(doc).v.m[EKeyword("trace")].v, IsFrame)
    IN  [i \in DOMAIN frames |-> JoinSpaces(SelectSeq(frames[i].v, IsToken))]

\* the lines of `text` are the message lines, the separator of prepl/mod.rs 48
\* (its leading empty line is trimmed away when no message precedes it), and
\* the frame lines
RendersDoc(doc, text) ==
    \E sep \in { << <<>>, <<"-- Trace --">> >>, << <<"-- Trace --">> >> } :
        TextLines(text) = MessageLines(doc) \o sep \o FrameLines(doc)

\* the receive calls that decoded the exception document `doc`
DecodedDoc(doc) == {i \in DOMAIN p_got : p_got[i].read = ReadLine(ExceptionLine(doc))}

\* C21: the exception decoder of the Line backend renders each message of
\* `via` as its own line, followed by one line per frame of `trace` with the
\* frame's symbol, string and integer tokens joined by single spaces; for
\* via = [{message: "boom"}] and trace = [[sym1, "file.ext", 42]] the text
\* has "boom" on its own line and a later line "sym1 file.ext 42".
C21_ExceptionRendering ==
    \A doc \in PreplExceptionTexts :
        WellFormedDoc(doc) =>
            \A i \in DecodedDoc(doc) :
                /\ p_got[i].result.res = "Ok"
                /\ p_got[i].result.v.tag = "Exception"
                /\ RendersDoc(doc, p_got[i].result.v.trace)

(***************************************************************************)
(* Claims about the backend detector (DetectSpec)                          *)
(***************************************************************************)
\* the detector read a byte, after it sent its probe
DetectorDecided == d_read # <<>>

\* C22: the backend detector, having sent its probe and read exactly one
\* byte, selects the Line backend when the byte is `{` (0x7B) and the Framed
\* backend when it is `d` (0x64); any other byte, and a read or connection
\* error, is a detector failure in which no backend is instantiated.
C22_Detector ==
    /\ Len(d_read) <= 1
    /\ DetectorDecided =>
          /\ d_wire = <<Probe>>
          /\ d_read[1] = 123 => d_pc = "selected" /\ d_backend = "Line"
          /\ d_read[1] = 100 => d_pc = "selected" /\ d_backend = "Framed"
          /\ d_read[1] \notin {123, 100} => d_pc = "failed"
    /\ d_pc = "failed" => d_backend = "none"
    /\ d_pc = "selected" => DetectorDecided
    /\ d_backend # "none" => d_pc = "selected"

\* the server's response began with `d`
C22_Witness == d_read = <<100>> /\ d_backend = "Framed"

(***************************************************************************)
(* Claims about the worker loop of src/main.rs (Spec, LiveSpec)            *)
(***************************************************************************)
\* the server items the worker has received as decoded values
Decoded == {k \in 2..m_rd : m_emitted[k].item = "frame"}

\* how often the display sink (LogBuf::append_lines) was called for item k
SinkCalls(k) == Cardinality({i \in DOMAIN m_appends : m_appends[i] = k})

\* a failed call of the sink is the last one, ends the worker loop with an
\* error, and the run does not end successfully
SinkFailureFatal ==
    \A i \in DOMAIN m_sink :
        m_sink[i].res = "Err" =>
            /\ i = Len(m_sink)
            /\ w_pc = "exited_err"
            /\ w_exit = [cause |-> "sink_err", at |-> m_sink[i].src]
            /\ m_pc # "done_ok"

\* C23: the display sink is called exactly once per decoded response, by the
\* worker while it handles that response, and a failure of the sink is
\* propagated as a fatal error that ends the worker loop and the run.
C23_SinkOncePerResponse ==
    /\ \A k \in Decoded : SinkCalls(k) = 1
    /\ \A i \in DOMAIN m_appends : m_appends[i] \in Decoded
    /\ SinkFailureFatal

\* the k-th item of the server is a response with a value, with an error text,
\* with a status list that holds "done"
IsValue(k) == HasStr(m_emitted[k].val.m, "value")
IsError(k) == HasStr(m_emitted[k].val.m, "err")
IsDone(k) ==
    /\ HasList(m_emitted[k].val.m, "status")
    /\ Contains(m_emitted[k].val.m[BStr("status")].l, BStr("done"))

\* the worker echoed `text` to the host while it processed the k-th item
Echoed(k, text) ==
    \E i \in DOMAIN m_sink :
        /\ m_sink[i].call = "out_write"
        /\ m_sink[i].src = k
        /\ m_sink[i].text = text \o "\n"

\* C24: the worker loop keeps one pending value: set when a value response
\* arrives, cleared when an error response arrives, echoed to the host when
\* a status holding "done" arrives. A value response followed later by a done
\* status, with nothing in between but responses that are no error (and no
\* value or done status of their own), is echoed when the done status is
\* processed.
C24_PendingValueEchoed ==
    /\ (w_pc = "recv" /\ m_rd >= 2) =>
          /\ IsValue(m_rd) => last_result = m_emitted[m_rd].val.m[BStr("value")].s
          /\ IsError(m_rd) /\ ~IsValue(m_rd) => last_result = ""
    /\ \A j \in Handled :
          IsDone(j) =>
            \A i \in 2..(j - 1) :
                ( /\ IsValue(i)
                  /\ \A k \in (i + 1)..(j - 1) :
                        ~IsError(k) /\ ~IsValue(k) /\ ~IsDone(k) )
                => Echoed(j, m_emitted[i].val.m[BStr("value")].s)

(***************************************************************************)
(* Claims about the startup of the Line backend (PreplSpec)                *)
(***************************************************************************)
\* new_sender_receiver of the Line backend has returned Ok((sender, receiver))
PreplReturnedPair == p_pc \in {"ready", "panicked"}

ExitIssued == \E k \in DOMAIN m_events : m_events[k].event # "nrepl"

\* the server has sent a status that holds "session-closed" to the worker, or
\* has closed the connection
ServerAnswered ==
    \/ m_closed
    \/ \E k \in 2..Len(m_emitted) :
          /\ m_emitted[k].item = "frame"
          /\ m_emitted[k].val.t = "Map"
          /\ HasList(m_emitted[k].val.m, "status")
          /\ Contains(m_emitted[k].val.m[BStr("status")].l, BStr("session-closed"))

\* what the join of run() 492 returns for a worker that saw the end
JoinResult ==
    (m_pc = "join" /\ m_pc' # "join") =>
        /\ w_exit.cause = "session-closed" => m_pc' = "done_ok"
        /\ w_exit.cause = "end_of_stream" => m_pc' = "done_err"

\* C26: after the host has issued Exit, once the server has answered with a
\* status holding "session-closed" or has closed the connection, the worker
\* loop exits, the join returns and the process terminates; the run ends
\* successfully when the worker saw session-closed and with an error when it
\* saw the connection closed.
C26_ExitTerminates ==
    /\ (ExitIssued /\ ServerAnswered) ~> ProcessOver
    /\ [][JoinResult]_vars

\* the host issued exit, the close request was sent, the server answered with
\* session-closed and the run ended successfully
C26_Witness ==
    /\ ExitIssued
    /\ CloseSent
    /\ w_exit.cause = "session-closed"
    /\ m_pc = "done_ok"

(***************************************************************************)
(* Claims about the handshake of the Framed backend (NreplRecvSpec,        *)
(* NreplSpec)                                                              *)
(***************************************************************************)
\* new_sender_receiver has returned the pair (a later receive may have panicked)
NreplPairInUse == n_pc = "ready" \/ (n_pc = "panicked" /\ Len(n_stream) > 3)

\* C27: a successful Framed handshake consumes exactly three messages of the
\* server and performs exactly two sends, all inside new_sender_receiver: on
\* return the sender's request counter is 2, so that the first request of the
\* host carries id "2", and no response of the handshake is delivered to a
\* receive call made after it.
C27_HandshakeExchange ==
    NreplPairInUse =>
        /\ Len(n_trace) = 5
        /\ [i \in 1..5 |-> n_trace[i].ev] = <<"send", "recv", "send", "recv", "recv">>
        /\ Len(n_stream) >= 3
        /\ \A i \in 1..3 : n_stream[i].item = "frame"
        /\ n_trace[2].result = NreplReceive(n_stream[1])
        /\ n_trace[4].result = NreplReceive(n_stream[2])
        /\ n_trace[5].result = NreplReceive(n_stream[3])
        /\ Len(n_sendlog) = 2
        /\ n_wire = <<n_sendlog[1].dict, n_sendlog[2].dict>>
        /\ sender.request_cnt = 2
        /\ SendDict(sender, ReqEval(CodeParams)).m[BStr("id")] = BStr("2")
        /\ n_last.item.item = "nothing" => Len(n_stream) = 3
        /\ n_last.item.item # "nothing" =>
              /\ Len(n_stream) >= 4
              /\ n_last.item = n_stream[Len(n_stream)]
              /\ n_last.result = NreplReceive(n_stream[Len(n_stream)])

\* the pair was returned and the first receive after it gave a value
C27_Witness ==
    /\ n_pc = "ready"
    /\ Len(n_stream) = 4
    /\ n_last.result.res = "Ok"
    /\ n_last.result.v.tag = "Value"

\* C28: when a Framed send fails (write or flush returns an I/O error) the
\* sender's request counter and session id are left as they were and the
\* call makes no second attempt, so the next send carries the same id.
C28_FailedSendKeepsCounter ==
    /\ Len(n_wire) <= Len(n_sendlog)
    /\ \A i \in DOMAIN n_sendlog :
          n_sendlog[i].res = "Err" =>
            IF i < Len(n_sendlog)
            THEN /\ n_sendlog[i + 1].cnt = n_sendlog[i].cnt
                 /\ n_sendlog[i + 1].session = n_sendlog[i].session
                 /\ n_sendlog[i + 1].dict.m[BStr("id")] = n_sendlog[i].dict.m[BStr("id")]
            ELSE /\ sender.request_cnt = n_sendlog[i].cnt
                 /\ sender.session_id = n_sendlog[i].session

\* the first request after the handshake failed and the next one was sent with
\* the id the failed one had
C28_Witness ==
    /\ Len(n_sendlog) = 4
    /\ n_sendlog[3].res = "Err"
    /\ n_sendlog[4].res = "Ok"
    /\ n_sendlog[4].dict.m[BStr("id")] = BStr("2")

(***************************************************************************)
(* Claims about the close request of src/main.rs (Spec)                    *)
(***************************************************************************)
\* the close request run() builds itself (483-486): it carries no session
IsExitRequest(val) == val = CloseRequest
\* a request of the host that run() forwards (476-480): it carries the session
IsForwarded(val) == val.t = "Map" /\ HasStr(val.m, "session")
\* the requests run() has handed to the sender, whatever the send returned
ExitRequests == {i \in DOMAIN m_cmdsends : IsExitRequest(m_cmdsends[i].val)}

ExceptionRet(read) ==
    /\ TaggedLine(read)
    /\ read.line.read.v.m[EKeyword("tag")].s = "ret"
    /\ FieldOr(read.line.read.v.m, "exception", "b", FALSE)

\* receive came back to its caller, with an Exception response or an error
ReturnedException(result) ==
    \/ result.res = "Ok" /\ result.v.tag = "Exception"
    \/ result.res = "Err"

\* C30: for every inbound ret line whose exception flag is true, receive
\* returns either an Exception response or an error: an exception document
\* that is unparsable, is not a map, or lacks the via or trace key never
\* aborts the worker thread instead of returning.
C30_ExceptionLineReturns ==
    \A i \in DOMAIN p_got :
        ExceptionRet(p_got[i].read) => ReturnedException(p_got[i].result)

(***************************************************************************)
(* Claims about the log buffer (LogBufSpec)                                *)
(***************************************************************************)
\* an append_lines call was made and returned Ok
Appended == a_call.impl # "none" /\ a_call.res = "Ok"
\* the call put a trim step into its atomic batch
AskedToTrim == a_call.impl # "none" /\ a_call.trims

\* C31: after every append_lines call on the log buffer, for any current
\* line count and any batch size, the buffer holds at most max_lines lines,
\* and the trim step never asks to delete more lines than the buffer
\* currently contains.
C31_BufferBounded ==
    /\ Appended => a_call.after <= a_call.max_lines
    /\ AskedToTrim => a_call.trim_cnt <= a_call.before

\* the call appended a batch: it started from the buffer's true line count,
\* and its trim step, if it had one, asked for lines the buffer had
AppendedInStep ==
    /\ Appended
    /\ a_call.calls
    /\ a_call.counted = a_call.before
    /\ a_call.trims => a_call.trim_cnt <= a_call.before

\* C32: after every append_lines call, the cursor line that append_lines
\* sets (and, in main.rs, the tracked cursor_line field) equals the actual
\* number of lines in the log buffer after the trim and append, so the
\* cursor is always placed on the last existing line.
C32_CursorOnLastLine ==
    AppendedInStep =>
        /\ a_call.cursor_line = a_call.after
        /\ a_call.cursor = a_call.after
        /\ a_call.impl = "main.rs" => a_logbuf.cursor_line = a_nvim.lines

=============================================================================
